---- MODULE Spec2Model ----
(***************************************************************************)
(* Cluster bootstrap and join coordinator of net/remote/remote-node.sh and *)
(* the post-deployment checker net/remote/remote-sanity.sh.                *)
(*                                                                         *)
(* remote-node.sh is one sequential script run once per invocation on a    *)
(* host.  The bootstrap-validator role runs on the entrypoint host         *)
(* ("boot"), the validator and blockstreamer roles on a joining host       *)
(* ("node").  Files outlive an invocation, shell variables do not.         *)
(* Shell values are strings; numbers are parsed where the shell parses.    *)
(*                                                                         *)
(* The explorer's InstructionCard component is modelled beside them: its   *)
(* raw-view toggle and the raw-transaction fetch its Raw button triggers.  *)
(***************************************************************************)
EXTENDS Integers, Sequences, FiniteSets, TLC

\* ---------------------------------------------------------------- bounds
MaxNodes == 2
MaxRuns == 3
MaxClicks == 6

\* ------------------------------------------------------- shell arithmetic
Digits == <<"1", "2", "3", "4", "5", "6", "7", "8", "9">>

\* $(seq ...) and $((...)) print a number as a decimal string
Str(n) == IF n = 0 THEN "0" ELSE Digits[n]

\* [[ a -gt b ]] and seq parse a decimal string
Num(s) == IF s = "0" THEN 0 ELSE CHOOSE n \in 1..Len(Digits) : Digits[n] = s

IsNumeral(s) == s = "0" \/ \E n \in 1..Len(Digits) : Digits[n] = s

\* $(seq 1 n)
SeqTo(n) == [i \in 1..n |-> Str(i)]

Min(a, b) == IF a < b THEN a ELSE b

\* ------------------------------------------------------------ file names
\* A file name is the sequence of its "-" separated tokens:
\* validator-identity-2.json is <<"validator", "identity", "2">>.
Identity(i) == <<"validator", "identity", i>>
BlockstreamerIdentity == <<"blockstreamer", "identity">>

\* [[ "$name" =~ ^validator-identity- ]]
IsValidatorIdentity(name) ==
    Len(name) >= 3 /\ name[1] = "validator" /\ name[2] = "identity"

\* ${name//-from-/-to-}: every token "from" that has a "-" on both sides
Subst(name, from, to) ==
    [k \in DOMAIN name |->
        IF name[k] = from /\ 1 < k /\ k < Len(name) THEN to ELSE name[k]]

\* the name as the shell writes it
RECURSIVE FileName(_)
FileName(name) ==
    IF Len(name) = 0 THEN ""
    ELSE IF Len(name) = 1 THEN name[1]
    ELSE name[1] \o "-" \o FileName(Tail(name))

\* A path is <<directory, file name>>
Cfg(name) == <<"config", name>>
Cache(name) == <<"net/keypairs", name>>

ShredVersionFile == Cfg(<<"shred", "version">>)
BankHashFile == Cfg(<<"bank", "hash">>)
LedgerDir == Cfg(<<"bootstrap", "validator">>)
FaucetFile == Cfg(<<"faucet">>)
LocalIdentity == Cfg(<<"validator", "identity">>)
LocalStake == Cfg(<<"stake", "account">>)
LocalVote == Cfg(<<"vote", "account">>)

Has(files, path) == path \in DOMAIN files

\* cp, rsync, tee, > : create or overwrite one file
Write(files, path, content) ==
    [p \in DOMAIN files \cup {path} |-> IF p = path THEN content ELSE files[p]]

\* clear_config_dir "$SOLANA_CONFIG_DIR": empties config/
clear_config_dir(files) ==
    [p \in {q \in DOMAIN files : q[1] # "config"} |-> files[p]]

\* ------------------------------------------------------------ file contents
\* solana-keygen new: a keypair never seen before.  It is identified by the
\* invocation that generated it and the file it was generated into.
NewKey(run, name) == "key:" \o Str(run) \o ":" \o FileName(name)
\* a keypair kept in the keypair cache net/keypairs before any invocation
CachedKey(name) == "key:cache:" \o FileName(name)
\* solana-keygen pubkey
Pubkey(key) == "pubkey-of-" \o key

\* the outputs of solana-ledger-tool for the genesis built by invocation g
ShredOf(g) == "shred-" \o Str(g)
BankHashOf(g) == "bankhash-" \o Str(g)

Hosts == {"boot", "node"}

\* ------------------------------------------------------------------ state
VARIABLES
    pc,           \* position of the running remote-node.sh, "idle", "exited"
    arg,          \* its shell variables
    args,         \* its args array
    calls,        \* the external commands it has run, in order
    launched,     \* the validator process it started
    seen,         \* what it found in config/ and fetched from the entrypoint
    exitStatus,   \* exit status of the last finished invocation
    errMsg,       \* error message of the last finished invocation
    runs,         \* invocations started so far
    fs,           \* per host: the files under ~/solana
    deployConfig, \* per host: the deployConfig file, <<>> if there is none
    onReboot,     \* per host: the lines of ~/solana/on-reboot
    stakedAtGenesis, \* node indices whose triple the current genesis was given
    spc,          \* position of the running remote-sanity.sh
    sarg,         \* its inputs and shell variables
    sobs,         \* what its external commands observed
    sout,         \* exit status and report of the sanity run
    scalls,       \* the probes it has sent, in order
    card          \* the InstructionCard component: props, state, fetches

nodeVars == <<pc, arg, args, calls, launched, seen, exitStatus, errMsg,
              runs, fs, deployConfig, onReboot, stakedAtGenesis>>
sanityVars == <<spc, sarg, sobs, sout, scalls>>
vars == <<pc, arg, args, calls, launched, seen, exitStatus, errMsg,
          runs, fs, deployConfig, onReboot, stakedAtGenesis,
          spc, sarg, sobs, sout, scalls, card>>

\* ----------------------------------------------------------------- inputs
\* The positional parameters $1..$22 of one invocation that the model varies
\* ($5 RUST_LOG, $8 externalPrimordialAccountsFile, $13..$17 bench clients
\* and genesisOptions are left empty), and whether the host it runs on has
\* the device /dev/nvidia0.
BaseArgs ==
    [deployMethod |-> "local", nodeType |-> "validator",
     entrypointIp |-> "10.0.0.1", numNodes |-> Str(MaxNodes),
     skipSetup |-> "false", failOnValidatorBootupFailure |-> "true",
     maybeDisableAirdrops |-> "", internalNodesStakeLamports |-> "42",
     internalNodesLamports |-> "", nodeIndex |-> "1",
     extraNodeArgs |-> <<>>, gpuMode |-> "", maybeWarpSlot |-> <<>>,
     waitForNodeInit |-> "false", extraPrimordialStakes |-> "0",
     nvidia0 |-> FALSE]

\* the shell variables of an invocation that has not started
NoArgs ==
    [deployMethod |-> "", nodeType |-> "", entrypointIp |-> "",
     numNodes |-> "", skipSetup |-> "", failOnValidatorBootupFailure |-> "",
     maybeDisableAirdrops |-> "", internalNodesStakeLamports |-> "",
     internalNodesLamports |-> "", nodeIndex |-> "", extraNodeArgs |-> <<>>,
     gpuMode |-> "", maybeWarpSlot |-> <<>>, waitForNodeInit |-> "",
     extraPrimordialStakes |-> "", airdropsEnabled |-> "",
     GPU_CUDA_OK |-> "", GPU_FAIL_IF_NONE |-> "",
     maybeWaitForSupermajority |-> "", bankHash |-> "", i |-> "",
     p22 |-> ""]

\* what an invocation has found, fetched, printed and written so far
NothingSeen ==
    [before |-> <<>>, shred |-> <<>>, bankHash |-> "", failed |-> {},
     warning |-> <<>>, written |-> {}, stake |-> 0,
     waited |-> 0, nvidia0 |-> FALSE, env |-> {}, given |-> <<>>,
     warp |-> <<>>, nopubkey |-> {}]
Running == 0 - 1

\* the host an invocation runs on
HostOf(a) == IF a.nodeType = "bootstrap-validator" THEN "boot" ELSE "node"
Host == HostOf(arg)

\* set -e: the script ends with the status of the command that failed
Exit(status, msg) ==
    /\ pc' = "exited"
    /\ exitStatus' = status
    /\ errMsg' = msg

\* the script without set -e
ContinuesRegardless(ok) == TRUE

\* set -e (line 61): the script goes on after a command iff it succeeded
Continues(ok) == ok

Goto(label) ==
    /\ pc' = label
    /\ UNCHANGED <<exitStatus, errMsg>>

\* ------------------------------------------------- remote-node.sh: prologue
\* gpuMode="${19:-auto}"
DefaultGpuMode(v) == IF v = "" THEN "auto" ELSE v

\* extraPrimordialStakes="${22:=0}": bash cannot assign to a positional
\* parameter, so an unset or empty $22 is an expansion error that ends the
\* script with status 1 before anything else runs
CanExpandArg22(v) == v # ""

\* lines 66-89
Invoke(I, limit) ==
    /\ pc \in {"idle", "exited"}
    /\ runs < limit
    /\ \E in \in I :
        /\ arg' = [NoArgs EXCEPT
                !.deployMethod = in.deployMethod,
                !.nodeType = in.nodeType,
                !.entrypointIp = in.entrypointIp,
                !.numNodes = in.numNodes,
                !.skipSetup = in.skipSetup,
                !.failOnValidatorBootupFailure = in.failOnValidatorBootupFailure,
                !.maybeDisableAirdrops = in.maybeDisableAirdrops,
                !.internalNodesStakeLamports = in.internalNodesStakeLamports,
                !.internalNodesLamports = in.internalNodesLamports,
                !.nodeIndex = in.nodeIndex,
                !.extraNodeArgs = in.extraNodeArgs,
                !.gpuMode = DefaultGpuMode(in.gpuMode),
                !.maybeWarpSlot = in.maybeWarpSlot,
                !.waitForNodeInit = in.waitForNodeInit,
                !.extraPrimordialStakes = in.extraPrimordialStakes,
                !.p22 = in.extraPrimordialStakes]
        /\ seen' = [NothingSeen EXCEPT !.nvidia0 = in.nvidia0,
                                       !.given = in.maybeWarpSlot]
        /\ IF CanExpandArg22(in.extraPrimordialStakes)
           THEN pc' = "validate" /\ exitStatus' = Running /\ errMsg' = ""
           ELSE Exit(1, "$22: cannot assign in this way")
    /\ runs' = runs + 1
    /\ args' = <<>>
    /\ calls' = <<>>
    /\ launched' = <<>>
    /\ UNCHANGED <<fs, deployConfig, onReboot, stakedAtGenesis>>
    /\ UNCHANGED <<sanityVars, card>>

RequiredFields ==
    <<"deployMethod", "nodeType", "entrypointIp", "numNodes", "skipSetup",
      "failOnValidatorBootupFailure">>

\* the checks without the last one, of failOnValidatorBootupFailure
FirstMissingButLast(a) ==
    LET empty == {k \in 1..(Len(RequiredFields) - 1) :
                    a[RequiredFields[k]] = ""}
    IN  IF empty = {} THEN ""
        ELSE RequiredFields[CHOOSE k \in empty : \A j \in empty : k <= j]

\* the checks of lines 97-102 run in order and the first empty field ends
\* the script, so the field reported is the first empty one
FirstMissing(a) ==
    LET empty == {k \in DOMAIN RequiredFields : a[RequiredFields[k]] = ""}
    IN  IF empty = {} THEN ""
        ELSE RequiredFields[CHOOSE k \in empty : \A j \in empty : k <= j]

\* missing()
missing(field) == Exit(1, "Error: " \o field \o " not specified")

\* lines 97-102
Validate ==
    /\ pc = "validate"
    /\ IF FirstMissing(arg) # ""
       THEN missing(FirstMissing(arg))
       ELSE Goto("deployConfig")
    /\ UNCHANGED <<arg, args, calls, launched, seen, runs, fs,
                   deployConfig, onReboot, stakedAtGenesis>>
    /\ UNCHANGED <<sanityVars, card>>

\* lines 104-107
AirdropsEnabled(a) == IF a.maybeDisableAirdrops # "" THEN "false" ELSE "true"

\* lines 104-115
WriteDeployConfig ==
    /\ pc = "deployConfig"
    /\ arg' = [arg EXCEPT !.airdropsEnabled = AirdropsEnabled(arg)]
    /\ deployConfig' = [deployConfig EXCEPT ![Host] =
            <<[deployMethod |-> arg.deployMethod,
               entrypointIp |-> arg.entrypointIp,
               numNodes |-> arg.numNodes,
               failOnValidatorBootupFailure |-> arg.failOnValidatorBootupFailure,
               airdropsEnabled |-> AirdropsEnabled(arg)]>>]
    /\ seen' = [seen EXCEPT !.written = @ \cup {"deployConfig"}]
    /\ Goto("onReboot")
    /\ UNCHANGED <<args, calls, launched, runs, fs, onReboot,
                   stakedAtGenesis>>
    /\ UNCHANGED <<sanityVars, card>>

Line(cmd, a) == [cmd |-> cmd, args |-> a]

\* the header appended to the hook that is there (cat >>)
OnRebootHeaderAppended(old) == old \o <<Line("oom-score-adj.sh", <<>>)>>

\* cat > ~/solana/on-reboot (line 123): the hook after its header is written
OnRebootHeader(old) == <<Line("oom-score-adj.sh", <<>>)>>

\* lines 123-131: on-reboot is created anew, with its header only
CreateOnReboot ==
    /\ pc = "onReboot"
    /\ onReboot' = [onReboot EXCEPT ![Host] = OnRebootHeader(@)]
    /\ seen' = [seen EXCEPT !.written = @ \cup {"on-reboot"}]
    /\ Goto("gpuMode")
    /\ UNCHANGED <<arg, args, calls, launched, runs, fs,
                   deployConfig, stakedAtGenesis>>
    /\ UNCHANGED <<sanityVars, card>>

\* lines 133-153: <<GPU_CUDA_OK, GPU_FAIL_IF_NONE>>, <<>> for an unknown mode,
\* which ends the script with the two assignments of lines 133-134 made
GpuFlags(mode) ==
    CASE mode = "on" -> <<"true", "true">>
      [] mode = "off" -> <<"false", "false">>
      [] mode = "auto" -> <<"true", "false">>
      [] mode = "cuda" -> <<"true", "true">>
      [] OTHER -> <<>>

GpuMode ==
    /\ pc = "gpuMode"
    /\ IF GpuFlags(arg.gpuMode) = <<>>
       THEN /\ arg' = [arg EXCEPT !.GPU_CUDA_OK = "false",
                                  !.GPU_FAIL_IF_NONE = "false"]
            /\ Exit(1, "Unexpected gpuMode")
       ELSE /\ arg' = [arg EXCEPT !.GPU_CUDA_OK = GpuFlags(arg.gpuMode)[1],
                                  !.GPU_FAIL_IF_NONE = GpuFlags(arg.gpuMode)[2]]
            /\ Goto("deployMethod")
    /\ UNCHANGED <<args, calls, launched, seen, runs, fs, deployConfig,
                   onReboot, stakedAtGenesis>>
    /\ UNCHANGED <<sanityVars, card>>

\* the case without its *) branch
KnownDeployMethodAny(m) == TRUE

\* case $deployMethod in local|tar|skip)
KnownDeployMethod(m) == m \in {"local", "tar", "skip"}

\* lines 155-189 and 485-488; ./fetch-perf-libs.sh (line 160) runs before the
\* lines of the hook are appended, and its failure ends the script
DeployMethodCase ==
    /\ pc = "deployMethod"
    /\ \E ok \in BOOLEAN :
        IF KnownDeployMethod(arg.deployMethod)
        THEN /\ calls' = Append(calls, "fetch-perf-libs.sh")
             /\ IF Continues(ok)
                THEN /\ onReboot' = [onReboot EXCEPT ![Host] = @ \o
                            <<Line("monitors", <<>>),
                              Line("gpu", <<arg.GPU_CUDA_OK,
                                            arg.GPU_FAIL_IF_NONE>>)>>]
                     /\ Goto("nodeType")
                ELSE /\ Exit(1, "fetch-perf-libs.sh failed")
                     /\ UNCHANGED onReboot
        ELSE /\ ok
             /\ Exit(1, "Unknown deployment method")
             /\ UNCHANGED <<onReboot, calls>>
    /\ UNCHANGED <<arg, args, launched, seen, runs, fs, deployConfig,
                   stakedAtGenesis>>
    /\ UNCHANGED <<sanityVars, card>>

\* case $nodeType in: lines 191-194, 357-358 and 479-482
NodeTypeCase ==
    /\ pc = "nodeType"
    /\ CASE arg.nodeType = "bootstrap-validator" ->
              IF arg.skipSetup # "true" THEN Goto("clearConfig")
              ELSE Goto("bootstrapArgs")
         [] arg.nodeType \in {"validator", "blockstreamer"} ->
              Goto("fetchBinaries")
         [] OTHER -> Exit(1, "Error: unknown node type")
    /\ UNCHANGED <<arg, args, calls, launched, seen, runs, fs,
                   deployConfig, onReboot, stakedAtGenesis>>
    /\ UNCHANGED <<sanityVars, card>>

\* ------------------------------------- remote-node.sh: bootstrap-validator
BalancesFile == Cfg(<<"validator-balances.yml">>)

\* the files of one host that a step reads and writes, and whether the step
\* got to its end (set -e ends the script at the first command that fails)
Ok(files) == [ok |-> TRUE, files |-> files]
Failed(files) == [ok |-> FALSE, files |-> files]

\* cp src dst
cp(files, src, dst) ==
    IF Has(files, src) THEN Ok(Write(files, dst, files[src])) ELSE Failed(files)

\* solana-keygen new --no-passphrase -so config/"$name".json
keygen(files, name, run) == Write(files, Cfg(name), NewKey(run, name))

\* cat >> file: append one entry, the words of its lines that vary
AppendTo(files, path, entry) ==
    Write(files, path, (IF Has(files, path) THEN files[path] ELSE <<>>) \o <<entry>>)

\* lines 195-199
ClearConfig ==
    /\ pc = "clearConfig"
    /\ fs' = [fs EXCEPT !["boot"] =
            IF arg.internalNodesLamports # ""
            THEN AppendTo(clear_config_dir(@), BalancesFile, <<"---">>)
            ELSE clear_config_dir(@)]
    /\ seen' = [seen EXCEPT !.before = fs["boot"]]
    /\ arg' = [arg EXCEPT !.i = "1"]
    /\ calls' = Append(calls, "clear_config_dir")
    /\ Goto("setupKeypair")
    /\ UNCHANGED <<args, launched, runs, deployConfig, onReboot,
                   stakedAtGenesis>>
    /\ UNCHANGED <<sanityVars, card>>

\* name="${name//-identity-/-vote-}" and name="${name//-vote-/-stake-}"
VoteName(name) == Subst(name, "identity", "vote")
StakeName(name) == Subst(name, "vote", "stake")

\* the value of $name when the balance entry is written (line 222)
BalanceName(name) ==
    IF IsValidatorIdentity(name) THEN StakeName(VoteName(name)) ELSE name

\* solana-keygen new of the files `names` in order, of which the first `good`
\* runs succeed; the first one that fails ends the script and writes nothing
RECURSIVE KeygenAll(_, _, _, _)
KeygenAll(files, names, run, good) ==
    IF names = <<>> THEN Ok(files)
    ELSE IF good > 0
    THEN KeygenAll(keygen(files, names[1], run), Tail(names), run, good - 1)
    ELSE Failed(files)

\* the keypair files lines 203-219 write for one identity, in order
KeypairFileNames(name) ==
    IF IsValidatorIdentity(name)
    THEN <<name, VoteName(name), StakeName(VoteName(name))>>
    ELSE <<name>>

\* the runs of solana-keygen new that lines 212-217 make for one identity
KeygenRuns(files, name) ==
    IF Has(files, Cache(name)) THEN 0 ELSE Len(KeypairFileNames(name))

\* the keypair files of one identity, generated without a look at the cache
ProvisionKeypairFresh(files, name, run, good) ==
    KeygenAll(files, KeypairFileNames(name), run, good)

\* lines 203-219: the keypair files of one identity; `good` is the number of
\* runs of solana-keygen that succeed before one fails
ProvisionKeypair(files, name, run, good) ==
    IF Has(files, Cache(name))
    THEN LET c1 == cp(files, Cache(name), Cfg(name))
             c2 == cp(c1.files, Cache(VoteName(name)), Cfg(VoteName(name)))
             c3 == cp(c2.files, Cache(StakeName(VoteName(name))),
                      Cfg(StakeName(VoteName(name))))
         IN  IF ~IsValidatorIdentity(name) THEN c1
             ELSE IF ~c2.ok THEN c2
             ELSE c3
    ELSE KeygenAll(files, KeypairFileNames(name), run, good)

\* lines 201-231; solana-keygen pubkey (line 222) runs after the runs of
\* solana-keygen new, and its failure ends the script before the entry is
\* appended
setupValidatorKeypair(files, name, run, lamports, good) ==
    LET p == ProvisionKeypair(files, name, run, good)
    IN  IF p.ok /\ lamports # ""
        THEN IF good > KeygenRuns(files, name)
             THEN Ok(AppendTo(p.files, BalancesFile,
                        <<Pubkey(p.files[Cfg(BalanceName(name))]), lamports>>))
             ELSE Failed(p.files)
        ELSE p

\* the loop counting from 0 to numNodes - 1
KeypairNamesFromZero(numNodes) ==
    [k \in 1..Num(numNodes) |-> Identity(Str(k - 1))]
        \o <<BlockstreamerIdentity>>

\* the names the loop of lines 232-235 provisions, in order
KeypairNames(numNodes) ==
    [k \in 1..Num(numNodes) |-> Identity(SeqTo(Num(numNodes))[k])]
        \o <<BlockstreamerIdentity>>

\* lines 232-235, one call of setupValidatorKeypair
SetupKeypair ==
    /\ pc = "setupKeypair"
    /\ \E good \in 0..(Len(KeypairFileNames(Identity("1"))) + 1) :
        LET names == KeypairNames(arg.numNodes)
            k == Num(arg.i)
            r == setupValidatorKeypair(fs["boot"], names[k], runs,
                                       arg.internalNodesLamports, good)
        IN  /\ fs' = [fs EXCEPT !["boot"] = r.files]
            /\ calls' = Append(calls, "setupValidatorKeypair")
            /\ IF ~r.ok
               THEN /\ Exit(1, IF ProvisionKeypair(fs["boot"], names[k], runs,
                                                   good).ok
                               THEN "solana-keygen pubkey failed"
                               ELSE IF Has(fs["boot"], Cache(names[k]))
                               THEN "cp: cannot stat"
                               ELSE "solana-keygen new failed")
                    /\ UNCHANGED arg
               ELSE IF k < Len(names)
               THEN Goto("setupKeypair") /\ arg' = [arg EXCEPT !.i = Str(k + 1)]
               ELSE Goto("genesis") /\ UNCHANGED arg
    /\ UNCHANGED <<args, launched, seen, runs, deployConfig, onReboot,
                   stakedAtGenesis>>
    /\ UNCHANGED <<sanityVars, card>>

\* lines 287-291: extraPrimordialStakes after the clamp to numNodes
ClampStakes(eps, numNodes) ==
    IF Num(eps) > 0 /\ Num(eps) > Num(numNodes) THEN numNodes ELSE eps

\* line 289: the warning, <<>> when there is none
ClampWarning(eps, numNodes) ==
    IF Num(eps) > 0 /\ Num(eps) > Num(numNodes)
    THEN <<"warning: extraPrimordialStakes clamped to numNodes", eps, numNodes>>
    ELSE <<>>

\* "$(solana-keygen pubkey file)": the public key, or the empty word when the
\* command fails, as it does on a file that is not there
PubkeyWord(files, path, fails) ==
    IF fails \/ ~Has(files, path) THEN "" ELSE Pubkey(files[path])

\* the keypairs of a staked node, in the order of lines 293-295
KeypairKinds == <<"identity", "vote", "stake">>

\* the runs of solana-keygen pubkey of lines 293-295, one for each keypair
\* of each node the loop of line 292 counts to
PubkeyCalls(eps, numNodes) ==
    IF Num(eps) > 0
    THEN {<<SeqTo(Num(ClampStakes(eps, numNodes)))[k], KeypairKinds[j]>> :
            k \in 1..Num(ClampStakes(eps, numNodes)), j \in 1..3}
    ELSE {}

\* lines 292-297: the --bootstrap-validator triples of the loop run to its
\* end, `failing` being the runs of solana-keygen pubkey that fail, each
\* named by its node and its kind of keypair
StakeTriples(files, eps, numNodes, failing) ==
    IF Num(eps) > 0
    THEN [k \in 1..Num(ClampStakes(eps, numNodes)) |->
            LET i == SeqTo(Num(ClampStakes(eps, numNodes)))[k]
            IN  <<i, PubkeyWord(files, Cfg(<<"validator", "identity", i>>),
                                <<i, "identity">> \in failing),
                     PubkeyWord(files, Cfg(<<"validator", "vote", i>>),
                                <<i, "vote">> \in failing),
                     PubkeyWord(files, Cfg(<<"validator", "stake", i>>),
                                <<i, "stake">> \in failing)>>]
    ELSE <<>>

\* line 293 under set -e: the status of args+=(... "$(a)" "$(b)" "$(c)") is
\* the status of its last command substitution, so the script ends at the
\* first triple whose stake pubkey fails and goes on after a failing
\* identity or vote pubkey.  The position of that triple, 0 if there is none.
FirstStakeFailure(triples) ==
    IF \E k \in DOMAIN triples : triples[k][4] = ""
    THEN CHOOSE k \in DOMAIN triples :
            /\ triples[k][4] = ""
            /\ \A j \in 1..(k - 1) : triples[j][4] # ""
    ELSE 0

\* the triples appended to args when the loop ends or the script does
TriplesAppended(triples) ==
    IF FirstStakeFailure(triples) = 0 THEN triples
    ELSE SubSeq(triples, 1, FirstStakeFailure(triples))

\* multinode-demo/setup.sh: builds the genesis ledger and the faucet keypair
setup_sh(files, run) ==
    Write(Write(files, LedgerDir, "ledger-" \o Str(run)),
          FaucetFile, NewKey(run, <<"faucet">>))

\* lines 271-297: the args array, which multinode-demo/setup.sh is given
GenesisArgs(a, files, failing) ==
    LET triples == TriplesAppended(StakeTriples(files, a.extraPrimordialStakes,
                                                a.numNodes, failing))
    IN  (IF a.internalNodesStakeLamports # ""
         THEN <<"--bootstrap-validator-stake-lamports",
                a.internalNodesStakeLamports>> ELSE <<>>)
        \o (IF a.internalNodesLamports # ""
            THEN <<"--bootstrap-validator-lamports", a.internalNodesLamports>>
            ELSE <<>>)
        \o (IF Has(files, BalancesFile)
            THEN <<"--primordial-accounts-file", "config/validator-balances.yml">>
            ELSE <<>>)
        \o [p \in 1..(4 * Len(triples)) |->
                IF (p - 1) % 4 = 0 THEN "--bootstrap-validator"
                ELSE triples[((p - 1) \div 4) + 1][((p - 1) % 4) + 1]]

\* lines 237-300
Genesis ==
    /\ pc = "genesis"
    /\ arg' = [arg EXCEPT !.extraPrimordialStakes =
                    ClampStakes(arg.extraPrimordialStakes, arg.numNodes)]
    /\ \E ok \in BOOLEAN,
          failing \in SUBSET PubkeyCalls(arg.extraPrimordialStakes,
                                         arg.numNodes) :
        \E triples \in {StakeTriples(fs["boot"], arg.extraPrimordialStakes,
                                     arg.numNodes, failing)},
           done \in {TriplesAppended(
                        StakeTriples(fs["boot"], arg.extraPrimordialStakes,
                                     arg.numNodes, failing))} :
            /\ args' = GenesisArgs(arg, fs["boot"], failing)
            /\ seen' = [seen EXCEPT
                    !.warning = ClampWarning(arg.extraPrimordialStakes,
                                             arg.numNodes),
                    !.nopubkey = UNION {
                        {<<done[k][1], KeypairKinds[j]>> :
                            j \in {i \in 1..3 : done[k][i + 1] = ""}} :
                        k \in DOMAIN done}]
            /\ IF FirstStakeFailure(triples) # 0
               THEN /\ ok
                    /\ Exit(1, "solana-keygen pubkey failed")
                    /\ UNCHANGED <<fs, stakedAtGenesis, calls>>
               ELSE /\ calls' = Append(calls, "setup.sh")
                    /\ IF ok
                       THEN /\ fs' = [fs EXCEPT !["boot"] = setup_sh(@, runs)]
                            /\ stakedAtGenesis' =
                                    {triples[k][1] : k \in DOMAIN triples}
                            /\ Goto("snapshot")
                       ELSE /\ Exit(1, "setup.sh failed")
                            /\ UNCHANGED <<fs, stakedAtGenesis>>
    /\ UNCHANGED <<launched, runs, deployConfig, onReboot>>
    /\ UNCHANGED <<sanityVars, card>>

\* the scan of lines 305-311 without its shift: only the first word is tested
WaitForSupermajorityFirstWord(words) ==
    IF Len(words) >= 2 /\ words[1] = "--wait-for-supermajority"
    THEN words[2] ELSE ""

\* lines 302-311: the word after the first --wait-for-supermajority of
\* $extraNodeArgs, "" if there is none
RECURSIVE WaitForSupermajority(_)
WaitForSupermajority(words) ==
    IF Len(words) = 0 \/ words[1] = "" THEN ""
    ELSE IF words[1] = "--wait-for-supermajority"
    THEN (IF Len(words) >= 2 THEN words[2] ELSE "")
    ELSE WaitForSupermajority(Tail(words))

\* lines 313-315, as the words the unquoted $maybeWarpSlot of line 319
\* splits into: "--warp-slot " with no value after it is one word
WarpSlot(maybeWarpSlot, waitFor) ==
    IF maybeWarpSlot = <<>>
    THEN <<"--warp-slot">> \o (IF waitFor = "" THEN <<>> ELSE <<waitFor>>)
    ELSE maybeWarpSlot

\* lines 302-320
Snapshot ==
    /\ pc = "snapshot"
    /\ arg' = [arg EXCEPT
            !.maybeWaitForSupermajority = WaitForSupermajority(arg.extraNodeArgs),
            !.maybeWarpSlot =
                WarpSlot(@, WaitForSupermajority(arg.extraNodeArgs))]
    /\ \E ok \in BOOLEAN :
        IF WarpSlot(arg.maybeWarpSlot,
                    WaitForSupermajority(arg.extraNodeArgs)) # <<>>
        THEN /\ calls' = Append(calls, "create-snapshot")
             /\ seen' = [seen EXCEPT !.warp =
                    WarpSlot(arg.maybeWarpSlot,
                             WaitForSupermajority(arg.extraNodeArgs))]
             /\ IF Continues(ok) THEN Goto("shredVersion")
                ELSE Exit(1, "create-snapshot failed")
        ELSE /\ ok
             /\ UNCHANGED <<calls, seen>>
             /\ Goto("shredVersion")
    /\ UNCHANGED <<args, launched, runs, fs, deployConfig, onReboot,
                   stakedAtGenesis>>
    /\ UNCHANGED <<sanityVars, card>>

\* solana-ledger-tool -l config/bootstrap-validator shred-version | bank-hash:
\* a hash of the genesis ledger
GenesisOf(files) ==
    CHOOSE g \in 1..Len(Digits) : files[LedgerDir] = "ledger-" \o Str(g)

\* line 322: solana-ledger-tool shred-version | tee config/shred-version.
\* The script does not set pipefail, so the status of the pipeline is the
\* status of tee: a failing ledger tool prints nothing, tee writes an empty
\* file and the script goes on.
ShredVersion ==
    /\ pc = "shredVersion"
    /\ \E ok \in BOOLEAN :
        fs' = [fs EXCEPT !["boot"] =
            Write(@, ShredVersionFile,
                  IF ok THEN ShredOf(GenesisOf(@)) ELSE "")]
    /\ calls' = Append(calls, "shred-version")
    /\ Goto("bankHash")
    /\ UNCHANGED <<arg, args, launched, seen, runs, deployConfig, onReboot,
                   stakedAtGenesis>>
    /\ UNCHANGED <<sanityVars, card>>

\* lines 324-328; a failing bankHash=$(solana-ledger-tool ... bank-hash)
\* ends the script before anything is written
BankHash ==
    /\ pc = "bankHash"
    /\ \E ok \in BOOLEAN :
        IF arg.maybeWaitForSupermajority # ""
        THEN /\ calls' = Append(calls, "bank-hash")
             /\ IF ok
                THEN /\ arg' = [arg EXCEPT
                            !.bankHash = BankHashOf(GenesisOf(fs["boot"])),
                            !.extraNodeArgs = @ \o <<"--expected-bank-hash",
                                    BankHashOf(GenesisOf(fs["boot"]))>>]
                     /\ fs' = [fs EXCEPT !["boot"] =
                            Write(@, BankHashFile, BankHashOf(GenesisOf(@)))]
                     /\ Goto("bootstrapArgs")
                ELSE /\ Exit(1, "bank-hash failed")
                     /\ UNCHANGED <<arg, fs>>
        ELSE /\ ok
             /\ UNCHANGED <<arg, fs, calls>>
             /\ Goto("bootstrapArgs")
    /\ UNCHANGED <<args, launched, seen, runs, deployConfig, onReboot,
                   stakedAtGenesis>>
    /\ UNCHANGED <<sanityVars, card>>

initCompleteFile == "init-complete-node.log"

\* ~/solana/on-reboot: the validator processes its nohup lines start
RunOnReboot(lines) ==
    SelectSeq(lines, LAMBDA l :
        l.cmd \in {"bootstrap-validator.sh", "validator.sh"})

\* the if of lines 181-187 as two separate tests
GpuEnvNoElif(cudaOk, failIfNone, device) ==
    (IF cudaOk = "true" /\ device THEN {"SOLANA_CUDA"} ELSE {})
    \cup (IF failIfNone = "true" THEN {"SOLANA_GPU_MISSING"} ELSE {})

\* lines 181-187 of on-reboot: the variables exported to the processes the
\* hook starts, `device` telling whether /dev/nvidia0 exists
GpuEnv(cudaOk, failIfNone, device) ==
    IF cudaOk = "true" /\ device THEN {"SOLANA_CUDA"}
    ELSE IF failIfNone = "true" THEN {"SOLANA_GPU_MISSING"}
    ELSE {}

\* ~/solana/on-reboot: the environment its GPU lines leave
HookEnv(lines, device) ==
    UNION {GpuEnv(lines[k].args[1], lines[k].args[2], device) :
            k \in {j \in DOMAIN lines : lines[j].cmd = "gpu"}}

\* the stake the cluster may show while a validator process is started: none
\* yet, or as much as the supermajority wait of $extraNodeArgs names
ObservableStakes(a) ==
    IF IsNumeral(WaitForSupermajority(a.extraNodeArgs))
    THEN {0, Num(WaitForSupermajority(a.extraNodeArgs))}
    ELSE {0}

\* ${args[@]} in the here-document of lines 345 and 445: the words the hook
\* passes when it runs, an empty word of the array leaving none
HookWords(a) == SelectSeq(a, LAMBDA w : w # "")

\* the args array without line 342
BootstrapArgsNoExtra(a) ==
    <<"--gossip-host", a.entrypointIp, "--gossip-port", "8001",
      "--init-complete-file", initCompleteFile>>

\* lines 330-342: the args array of the bootstrap validator
BootstrapArgs(a) ==
    <<"--gossip-host", a.entrypointIp, "--gossip-port", "8001",
      "--init-complete-file", initCompleteFile>>
    \o a.extraNodeArgs

\* lines 330-350.  The hook ends with disown, which fails when the process
\* the nohup line started has already ended: the hook then returns 1 and
\* the script ends, with the hook written and the process started
BootstrapLaunch ==
    /\ pc = "bootstrapArgs"
    /\ \E stake \in ObservableStakes(arg) :
            seen' = [seen EXCEPT !.stake = stake,
                        !.env = HookEnv(onReboot[Host], seen.nvidia0)]
    /\ LET a == BootstrapArgs(arg)
           hook == onReboot["boot"]
                    \o (IF arg.airdropsEnabled = "true"
                        THEN <<Line("faucet.sh", <<>>)>> ELSE <<>>)
                    \o <<Line("bootstrap-validator.sh", HookWords(a))>>
       IN  /\ args' = a
           /\ onReboot' = [onReboot EXCEPT !["boot"] = hook]
           /\ launched' = RunOnReboot(hook)
    /\ calls' = Append(calls, "on-reboot")
    /\ \E disowned \in BOOLEAN :
        IF Continues(disowned) THEN Goto("bootstrapWaitInit")
        ELSE Exit(1, "on-reboot: disown: no such job")
    /\ UNCHANGED <<arg, runs, fs, deployConfig, stakedAtGenesis>>
    /\ UNCHANGED <<sanityVars, card>>

\* net/remote/remote-node-wait-init.sh 600: the bound of the wait, in seconds
WaitInitBound == 600

\* the test of $waitForNodeInit that never takes the branch
RunsAsTrueNever(v) == FALSE

\* if $waitForNodeInit; then: the value is run as a command, and an empty
\* command succeeds
RunsAsTrue(v) == v \in {"true", ""}

\* net/remote/remote-node-wait-init.sh 600: 0 once the init-complete marker
\* exists, 1 when it does not appear within the bound
WaitInitStatus(markerAppears) == IF markerAppears THEN 0 ELSE 1

\* lines 352-354
BootstrapWaitInit ==
    /\ pc = "bootstrapWaitInit"
    /\ IF RunsAsTrue(arg.waitForNodeInit)
       THEN /\ calls' = Append(calls, "wait-init")
            /\ seen' = [seen EXCEPT !.waited = WaitInitBound]
            /\ \E appears \in BOOLEAN :
                Exit(WaitInitStatus(appears),
                     IF appears THEN "" ELSE "init timeout")
       ELSE /\ Exit(0, "")
            /\ UNCHANGED <<calls, seen>>
    /\ UNCHANGED <<arg, args, launched, runs, fs, deployConfig,
                   onReboot, stakedAtGenesis>>
    /\ UNCHANGED <<sanityVars, card>>

\* ------------------------------------ remote-node.sh: validator|blockstreamer
\* net/scripts/rsync-retry.sh host:src dst: copies the file over the local
\* one; fails once its retries are used up, which is what happens when the
\* host cannot be reached or has no such file.  scp behaves the same without
\* the retries.
rsync_retry(remote, src, local, dst, reachable) ==
    IF reachable /\ Has(remote, src)
    THEN Ok(Write(local, dst, remote[src]))
    ELSE Failed(local)

\* lines 358-361
FetchBinaries ==
    /\ pc = "fetchBinaries"
    /\ IF arg.deployMethod # "skip"
       THEN /\ calls' = Append(calls, "rsync:bin")
            /\ \E reachable \in BOOLEAN :
                /\ seen' = [seen EXCEPT !.failed =
                        IF reachable THEN @ ELSE @ \cup {"bin"}]
                /\ IF Continues(reachable) THEN Goto("fetchKeys")
                   ELSE Exit(1, "rsync failed")
       ELSE /\ Goto("fetchKeys")
            /\ UNCHANGED <<calls, seen>>
    /\ UNCHANGED <<arg, args, launched, runs, fs, deployConfig,
                   onReboot, stakedAtGenesis>>
    /\ UNCHANGED <<sanityVars, card>>

\* lines 365-375: <<file on the entrypoint, local file>> of each fetch
KeypairFetches(a) ==
    IF a.nodeType = "blockstreamer"
    THEN <<<<Cfg(BlockstreamerIdentity), LocalIdentity>>>>
    ELSE <<<<Cfg(<<"validator", "identity", a.nodeIndex>>), LocalIdentity>>,
           <<Cfg(<<"validator", "stake", a.nodeIndex>>), LocalStake>>,
           <<Cfg(<<"validator", "vote", a.nodeIndex>>), LocalVote>>>>

\* the fetches of `list` in order, of which the network lets the first
\* `good` through; the first one that fails ends the script
RECURSIVE FetchAll(_, _, _, _)
FetchAll(list, remote, local, good) ==
    IF list = <<>> THEN Ok(local)
    ELSE LET r == rsync_retry(remote, list[1][1], local, list[1][2], good > 0)
         IN  IF r.ok THEN FetchAll(Tail(list), remote, r.files, good - 1)
             ELSE r

\* the test of line 362 inverted
SetsUpInverted(a) == a.skipSetup = "true"

\* line 362
SetsUp(a) == a.skipSetup # "true"

\* lines 362-375
FetchKeys ==
    /\ pc = "fetchKeys"
    /\ IF SetsUp(arg)
       THEN /\ calls' = Append(Append(calls, "clear_config_dir"), "rsync:keypairs")
            /\ \E good \in 0..Len(KeypairFetches(arg)) :
                LET r == FetchAll(KeypairFetches(arg), fs["boot"],
                                  clear_config_dir(fs["node"]), good)
                IN  /\ fs' = [fs EXCEPT !["node"] = r.files]
                    /\ seen' = [seen EXCEPT !.before = fs["node"],
                            !.failed = IF r.ok THEN @ ELSE @ \cup {"keypairs"}]
                    /\ IF Continues(r.ok) THEN Goto("fetchShredVersion")
                       ELSE Exit(1, "rsync failed")
       ELSE /\ Goto("joinArgs")
            /\ UNCHANGED <<fs, calls, seen>>
    /\ UNCHANGED <<arg, args, launched, runs, deployConfig, onReboot,
                   stakedAtGenesis>>
    /\ UNCHANGED <<sanityVars, card>>

\* lines 376-377
FetchShredVersion ==
    /\ pc = "fetchShredVersion"
    /\ calls' = Append(calls, "rsync:shred-version")
    /\ \E reachable \in BOOLEAN :
        LET r == rsync_retry(fs["boot"], ShredVersionFile,
                             fs["node"], ShredVersionFile, reachable)
        IN  /\ fs' = [fs EXCEPT !["node"] = r.files]
            /\ seen' = [seen EXCEPT
                    !.shred = IF r.ok THEN <<r.files[ShredVersionFile]>>
                              ELSE <<>>,
                    !.failed = IF r.ok THEN @ ELSE @ \cup {"shred-version"}]
            /\ IF Continues(r.ok) THEN Goto("fetchBankHash")
               ELSE Exit(1, "rsync failed")
    /\ UNCHANGED <<arg, args, launched, runs, deployConfig, onReboot,
                   stakedAtGenesis>>
    /\ UNCHANGED <<sanityVars, card>>

\* cmd || true: the list succeeds whether or not cmd did
OrTrue(ok) == ok \/ TRUE

\* lines 379-380
FetchBankHash ==
    /\ pc = "fetchBankHash"
    /\ calls' = Append(calls, "rsync:bank-hash")
    /\ \E reachable \in BOOLEAN :
        LET r == rsync_retry(fs["boot"], BankHashFile,
                             fs["node"], BankHashFile, reachable)
        IN  /\ fs' = [fs EXCEPT !["node"] = r.files]
            /\ seen' = [seen EXCEPT
                    !.bankHash = IF r.ok THEN r.files[BankHashFile] ELSE "",
                    !.failed = IF r.ok THEN @ ELSE @ \cup {"bank-hash"}]
            /\ IF Continues(OrTrue(r.ok)) THEN Goto("fetchFaucet")
               ELSE Exit(1, "rsync failed")
    /\ UNCHANGED <<arg, args, launched, runs, deployConfig, onReboot,
                   stakedAtGenesis>>
    /\ UNCHANGED <<sanityVars, card>>

\* lines 382-383
FetchFaucet ==
    /\ pc = "fetchFaucet"
    /\ calls' = Append(calls, "rsync:faucet")
    /\ \E reachable \in BOOLEAN :
        LET r == rsync_retry(fs["boot"], FaucetFile,
                             fs["node"], FaucetFile, reachable)
        IN  /\ fs' = [fs EXCEPT !["node"] = r.files]
            /\ seen' = [seen EXCEPT !.failed =
                    IF r.ok THEN @ ELSE @ \cup {"faucet"}]
            /\ IF Continues(r.ok) THEN Goto("joinArgs")
               ELSE Exit(1, "rsync failed")
    /\ UNCHANGED <<arg, args, launched, runs, deployConfig, onReboot,
                   stakedAtGenesis>>
    /\ UNCHANGED <<sanityVars, card>>

\* the tests of lines 405 and 409: the keypairs of a join that are not there
MissingKeypairs(files) ==
    SelectSeq(<<LocalIdentity[2], LocalVote[2]>>,
              LAMBDA n : ~Has(files, Cfg(n)))

\* lines 405-412: a missing identity or vote keypair is generated, the first
\* `good` runs of solana-keygen new succeeding
EnsureKeypairs(files, run, good) ==
    KeygenAll(files, MissingKeypairs(files), run, good)

\* the args array without the test of lines 418-420
JoinArgsNoBankHash(a, files) ==
    <<"--entrypoint", a.entrypointIp \o ":8001", "--gossip-port", "8001",
      "--rpc-port", "8899",
      "--expected-shred-version", files[ShredVersionFile]>>
    \o (IF a.nodeType = "blockstreamer"
        THEN <<"--blockstream", "/tmp/solana-blockstream.sock", "--no-voting",
               "--dev-no-sigverify", "--enable-rpc-transaction-history">>
        ELSE IF a.internalNodesLamports # ""
        THEN <<"--node-lamports", a.internalNodesLamports>>
        ELSE <<>>)
    \o <<"--identity", "config/validator-identity.json",
         "--vote-account", "config/vote-account.json">>
    \o (IF a.airdropsEnabled # "true" THEN <<"--no-airdrop">> ELSE <<>>)

\* lines 386-420: the args array of the joining validator
JoinArgs(a, files) ==
    <<"--entrypoint", a.entrypointIp \o ":8001", "--gossip-port", "8001",
      "--rpc-port", "8899",
      "--expected-shred-version", files[ShredVersionFile]>>
    \o (IF a.nodeType = "blockstreamer"
        THEN <<"--blockstream", "/tmp/solana-blockstream.sock", "--no-voting",
               "--dev-no-sigverify", "--enable-rpc-transaction-history">>
        ELSE IF a.internalNodesLamports # ""
        THEN <<"--node-lamports", a.internalNodesLamports>>
        ELSE <<>>)
    \o <<"--identity", "config/validator-identity.json",
         "--vote-account", "config/vote-account.json">>
    \o (IF a.airdropsEnabled # "true" THEN <<"--no-airdrop">> ELSE <<>>)
    \o (IF Has(files, BankHashFile)
        THEN <<"--expected-bank-hash", files[BankHashFile]>> ELSE <<>>)

\* lines 386-420; $(cat config/shred-version) of a missing file ends the
\* script once the array of lines 386-391 is assigned, with the empty word
\* the substitution left, and a failing solana-keygen new ends it too,
\* leaving in args what lines 386-408 had put there
BuildJoinArgs ==
    /\ pc = "joinArgs"
    /\ \E good \in 0..Len(MissingKeypairs(fs["node"])) :
        IF Has(fs["node"], ShredVersionFile)
        THEN LET r == EnsureKeypairs(fs["node"], runs, good)
                 full == JoinArgs(arg, fs["node"])
                 at == CHOOSE k \in DOMAIN full : full[k] = "--identity"
             IN  /\ fs' = [fs EXCEPT !["node"] = r.files]
                 /\ IF r.ok
                    THEN /\ args' = full
                         /\ Goto("scpFaucet")
                    ELSE /\ args' = SubSeq(full, 1,
                                IF MissingKeypairs(fs["node"])[good + 1]
                                        = LocalIdentity[2]
                                THEN at - 1 ELSE at + 1)
                         /\ Exit(1, "solana-keygen new failed")
        ELSE /\ good = 0
             /\ args' = SubSeq(JoinArgs(arg, Write(fs["node"],
                                                   ShredVersionFile, "")),
                               1, 8)
             /\ Exit(1, "cat: config/shred-version: No such file or directory")
             /\ UNCHANGED fs
    /\ UNCHANGED <<arg, calls, launched, seen, runs, deployConfig, onReboot,
                   stakedAtGenesis>>
    /\ UNCHANGED <<sanityVars, card>>

\* line 425
ScpFaucet ==
    /\ pc = "scpFaucet"
    /\ calls' = Append(calls, "scp:faucet")
    /\ \E reachable \in BOOLEAN :
        LET r == rsync_retry(fs["boot"], FaucetFile,
                             fs["node"], FaucetFile, reachable)
        IN  /\ fs' = [fs EXCEPT !["node"] = r.files]
            /\ seen' = [seen EXCEPT !.failed =
                    IF r.ok THEN @ ELSE @ \cup {"scp:faucet"}]
            /\ IF Continues(r.ok) THEN Goto("joinLaunch")
               ELSE Exit(1, "scp failed")
    /\ UNCHANGED <<arg, args, launched, runs, deployConfig, onReboot,
                   stakedAtGenesis>>
    /\ UNCHANGED <<sanityVars, card>>

\* lines 426-453.  On a blockstreamer where /.cert.pem is there, a failing
\* install or ls of lines 438-439 ends the script after the faucet line was
\* appended and before the validator line is; `cert` is FALSE then.  The
\* hook ends with disown, which fails when the process the nohup line
\* started has already ended: the hook then returns 1 and the script ends,
\* with the hook written and the process started.
JoinLaunch ==
    /\ pc = "joinLaunch"
    /\ \E cert \in BOOLEAN, disowned \in BOOLEAN :
        LET a == args \o <<"--init-complete-file", initCompleteFile>>
                      \o arg.extraNodeArgs
            faucet == onReboot["node"]
                        \o (IF arg.nodeType = "blockstreamer"
                               /\ arg.airdropsEnabled = "true"
                            THEN <<Line("faucet.sh", <<>>)>> ELSE <<>>)
            hook == faucet \o <<Line("validator.sh", HookWords(a))>>
        IN  IF arg.nodeType = "blockstreamer" /\ ~cert
            THEN /\ disowned
                 /\ onReboot' = [onReboot EXCEPT !["node"] = faucet]
                 /\ Exit(1, "install: /.cert.pem")
                 /\ UNCHANGED <<args, launched, calls, seen>>
            ELSE /\ arg.nodeType # "blockstreamer" => cert
                 /\ \E stake \in ObservableStakes(arg) :
                        seen' = [seen EXCEPT !.stake = stake,
                            !.env = HookEnv(onReboot[Host], seen.nvidia0)]
                 /\ args' = a
                 /\ onReboot' = [onReboot EXCEPT !["node"] = hook]
                 /\ launched' = RunOnReboot(hook)
                 /\ calls' = Append(calls, "on-reboot")
                 /\ IF Continues(disowned) THEN Goto("joinWaitInit")
                    ELSE Exit(1, "on-reboot: disown: no such job")
    /\ UNCHANGED <<arg, runs, fs, deployConfig, stakedAtGenesis>>
    /\ UNCHANGED <<sanityVars, card>>

\* the catchup of line 462 outside its test
WantsCatchupAlways(a) == TRUE

\* the test of line 459 without its node type
WantsCatchupAnyNode(a) == a.skipSetup # "true"

\* line 459
WantsCatchup(a) == a.skipSetup # "true" /\ a.nodeType # "blockstreamer"

\* lines 455-459
JoinWaitInit ==
    /\ pc = "joinWaitInit"
    /\ IF RunsAsTrue(arg.waitForNodeInit)
       THEN /\ calls' = Append(calls, "wait-init")
            /\ seen' = [seen EXCEPT !.waited = WaitInitBound]
            /\ \E appears \in BOOLEAN :
                IF WaitInitStatus(appears) # 0
                THEN Exit(WaitInitStatus(appears), "init timeout")
                ELSE IF WantsCatchup(arg) THEN Goto("catchup")
                ELSE Exit(0, "")
       ELSE /\ UNCHANGED <<calls, seen>>
            /\ IF WantsCatchup(arg) THEN Goto("catchup") ELSE Exit(0, "")
    /\ UNCHANGED <<arg, args, launched, runs, fs, deployConfig,
                   onReboot, stakedAtGenesis>>
    /\ UNCHANGED <<sanityVars, card>>

\* line 462: solana catchup returns once the node has caught up, or fails;
\* it has no bound of its own
Catchup ==
    /\ pc = "catchup"
    /\ calls' = Append(calls, "catchup")
    /\ \E caughtUp \in BOOLEAN :
        IF caughtUp THEN Goto("delegate") ELSE Exit(1, "catchup failed")
    /\ UNCHANGED <<arg, args, launched, seen, runs, fs, deployConfig,
                   onReboot, stakedAtGenesis>>
    /\ UNCHANGED <<sanityVars, card>>

\* ${#v}: the length of the string
StrLen(v) == Len(v)

\* the delegation without its guard
DelegatesStakeUnguarded(extraPrimordialStakes) == TRUE

\* line 474
DelegatesStake(extraPrimordialStakes) == StrLen(extraPrimordialStakes) = 0

\* lines 464-472
DelegateArgs(a, files) ==
    <<"--url", "http://" \o a.entrypointIp \o ":8899">>
    \o (IF a.airdropsEnabled # "true" THEN <<"--no-airdrop">> ELSE <<>>)
    \o (IF Has(files, LocalIdentity)
        THEN <<"--keypair", "config/validator-identity.json">> ELSE <<>>)

\* lines 464-477
Delegate ==
    /\ pc = "delegate"
    /\ args' = DelegateArgs(arg, fs["node"])
    /\ IF DelegatesStake(arg.extraPrimordialStakes)
       THEN /\ calls' = Append(calls, "delegate-stake")
            /\ \E ok \in BOOLEAN :
                IF ok THEN Exit(0, "") ELSE Exit(1, "delegate-stake failed")
       ELSE /\ Exit(0, "")
            /\ UNCHANGED calls
    /\ UNCHANGED <<arg, launched, seen, runs, fs, deployConfig, onReboot,
                   stakedAtGenesis>>
    /\ UNCHANGED <<sanityVars, card>>

\* ------------------------------------------------------- remote-sanity.sh
\* the shell variables of a sanity run that has not started
NoSanityArgs ==
    [deployMethod |-> "", entrypointIp |-> "", numNodes |-> "",
     failOnValidatorBootupFailure |-> "", opts |-> <<>>,
     ledgerVerify |-> "", validatorSanity |-> "", rejectExtraNodes |-> "",
     numSanityNodes |-> "", nodeArg |-> ""]

\* what the external command of the step in progress observed
NoObs == [peers |-> 0, spy |-> "", attempts |-> 0, exitcode |-> 0,
          panic |-> FALSE]

NoOut == [status |-> Running, msg |-> "", pass |-> FALSE]

SanityExit(status, msg) ==
    /\ spc' = "exited"
    /\ sout' = [status |-> status, msg |-> msg, pass |-> FALSE]

SanityGoto(label) ==
    /\ spc' = label
    /\ UNCHANGED sout

\* the command line: the -o options of one run.  The run reads the
\* deployConfig file of the host it runs on, the bootstrap node.
SanityInvoke(O) ==
    /\ spc \in {"idle", "exited"}
    /\ \E opts \in O : sarg' = [NoSanityArgs EXCEPT !.opts = opts]
    /\ spc' = "config"
    /\ sout' = NoOut
    /\ sobs' = NoObs
    /\ scalls' = <<>>
    /\ UNCHANGED <<nodeVars, card>>

SanityRequiredFields ==
    <<"deployMethod", "entrypointIp", "numNodes", "failOnValidatorBootupFailure">>

SanityFirstMissing(c) ==
    LET empty == {k \in DOMAIN SanityRequiredFields :
                    c[SanityRequiredFields[k]] = ""}
    IN  IF empty = {} THEN ""
        ELSE SanityRequiredFields[CHOOSE k \in empty : \A j \in empty : k <= j]

\* lines 9-29
SanityConfig ==
    /\ spc = "config"
    /\ IF deployConfig["boot"] = <<>>
       THEN SanityExit(1, "deployConfig missing") /\ UNCHANGED sarg
       ELSE LET c == deployConfig["boot"][1]
            IN  /\ sarg' = [sarg EXCEPT
                        !.deployMethod = c.deployMethod,
                        !.entrypointIp = c.entrypointIp,
                        !.numNodes = c.numNodes,
                        !.failOnValidatorBootupFailure =
                            c.failOnValidatorBootupFailure]
                /\ IF SanityFirstMissing(c) # ""
                   THEN SanityExit(1, "Error: " \o SanityFirstMissing(c)
                                        \o " not specified")
                   ELSE SanityGoto("options")
    /\ UNCHANGED <<sobs, scalls>>
    /\ UNCHANGED <<nodeVars, card>>

KnownOptions == {"noLedgerVerify", "noValidatorSanity", "rejectExtraNodes"}

\* lines 31-46: <<ledgerVerify, validatorSanity, rejectExtraNodes>> after the
\* -o options the loop has read, which are those before the first one the
\* case of lines 37-50 does not know
SanityFlags(opts) ==
    LET unknown == {k \in DOMAIN opts : opts[k] \notin KnownOptions}
        read == IF unknown = {} THEN opts
                ELSE SubSeq(opts, 1,
                        (CHOOSE k \in unknown : \A j \in unknown : k <= j) - 1)
    IN  <<IF \E k \in DOMAIN read : read[k] = "noLedgerVerify"
          THEN "false" ELSE "true",
          IF \E k \in DOMAIN read : read[k] = "noValidatorSanity"
          THEN "false" ELSE "true",
          IF \E k \in DOMAIN read : read[k] = "rejectExtraNodes"
          THEN "true" ELSE "false">>

\* lines 31-52
SanityOptions ==
    /\ spc = "options"
    /\ sarg' = [sarg EXCEPT
            !.ledgerVerify = SanityFlags(sarg.opts)[1],
            !.validatorSanity = SanityFlags(sarg.opts)[2],
            !.rejectExtraNodes = SanityFlags(sarg.opts)[3]]
    /\ IF \E k \in DOMAIN sarg.opts : sarg.opts[k] \notin KnownOptions
       THEN SanityExit(1, "Error: unknown option")
       ELSE SanityGoto("deployMethod")
    /\ UNCHANGED <<sobs, scalls>>
    /\ UNCHANGED <<nodeVars, card>>

\* case $deployMethod in local|tar)
SanityKnownDeployMethod(m) == m \in {"local", "tar"}

\* lines 60-82
SanityDeployMethod ==
    /\ spc = "deployMethod"
    /\ IF SanityKnownDeployMethod(sarg.deployMethod)
       THEN SanityGoto("numSanityNodes")
       ELSE SanityExit(1, "Unknown deployment method")
    /\ UNCHANGED <<sarg, sobs, scalls>>
    /\ UNCHANGED <<nodeVars, card>>

\* the count without the test of line 84
NumSanityNodesAll(a) == a.numNodes

\* lines 84-88
NumSanityNodes(a) ==
    IF a.failOnValidatorBootupFailure = "true" THEN a.numNodes ELSE "1"

\* lines 84-92
SanityNumNodes ==
    /\ spc = "numSanityNodes"
    /\ sarg' = [sarg EXCEPT !.numSanityNodes = NumSanityNodes(sarg)]
    /\ IF sarg.failOnValidatorBootupFailure # "true"
          /\ sarg.rejectExtraNodes = "true"
       THEN SanityExit(1,
                "rejectExtraNodes cannot be used with failOnValidatorBootupFailure")
       ELSE SanityGoto("nodeCount")
    /\ UNCHANGED <<sobs, scalls>>
    /\ UNCHANGED <<nodeVars, card>>

\* the probe without the test of lines 100-102
NodeArgAtLeast(rejectExtraNodes) == "num-nodes"

\* lines 99-102
NodeArg(rejectExtraNodes) ==
    IF rejectExtraNodes = "true" THEN "num-nodes-exactly" ELSE "num-nodes"

\* solana-gossip spy --num-nodes N | --num-nodes-exactly N when `peers` are
\* all the peers there are to discover: it ends with 0 once it sees the
\* count asked for, ends with 1 when it sees more than exactly N, and
\* otherwise keeps looking ("waiting")
spy(nodeArg, n, peers) ==
    IF nodeArg = "num-nodes-exactly"
    THEN (IF peers = n THEN "0" ELSE IF peers > n THEN "1" ELSE "waiting")
    ELSE (IF peers >= n THEN "0" ELSE "waiting")

TimeoutCode == 124

\* timeout 2m cmd: the status of cmd, or 124 when cmd is still running
\* after two minutes
timeout(outcome) == IF outcome = "waiting" THEN TimeoutCode ELSE Num(outcome)

\* a script that ends with exit 1 whenever a command fails
FailStatusOne(status) == 1

\* a script whose failed command does not show in its exit status
FailStatusLost(status) == 0

\* set -e: the status a failed command ends the script with
FailStatus(status) == status

\* lines 94-106
SanityNodeCount ==
    /\ spc = "nodeCount"
    /\ \E keygenOk \in BOOLEAN, peers \in 0..(MaxNodes + 1) :
        LET outcome == spy(NodeArg(sarg.rejectExtraNodes),
                           Num(sarg.numSanityNodes), peers)
        IN  IF keygenOk
            THEN /\ sarg' = [sarg EXCEPT
                        !.nodeArg = NodeArg(sarg.rejectExtraNodes)]
                 /\ scalls' = Append(Append(scalls, "solana-keygen"), "spy")
                 /\ sobs' = [NoObs EXCEPT !.peers = peers, !.spy = outcome]
                 /\ IF timeout(outcome) = 0 THEN SanityGoto("rpc")
                    ELSE SanityExit(FailStatus(timeout(outcome)), "node count")
            ELSE /\ peers = 0
                 /\ scalls' = Append(scalls, "solana-keygen")
                 /\ SanityExit(FailStatus(1), "solana-keygen")
                 /\ UNCHANGED <<sarg, sobs>>
    /\ UNCHANGED <<nodeVars, card>>

\* curl --retry 5: the retries after the first attempt
CurlRetries == 5

\* curl without --retry
CurlAttemptsOnce(good) == 1

\* lines 108-115: the request is sent until an attempt succeeds or the
\* retries are used up; `good` is the first attempt that would succeed
CurlAttempts(good) == Min(good, CurlRetries + 1)

SanityRpc ==
    /\ spc = "rpc"
    /\ scalls' = Append(scalls, "curl")
    /\ \E good \in 1..(CurlRetries + 2) :
        /\ sobs' = [NoObs EXCEPT !.attempts = CurlAttempts(good)]
        /\ IF good <= CurlAttempts(good) THEN SanityGoto("wallet")
           ELSE SanityExit(7, "curl: connection refused")
    /\ UNCHANGED sarg
    /\ UNCHANGED <<nodeVars, card>>

\* lines 117-121
SanityWallet ==
    /\ spc = "wallet"
    /\ scalls' = Append(scalls, "wallet-sanity.sh")
    /\ sobs' = NoObs
    /\ \E ok \in BOOLEAN :
        IF ok THEN SanityGoto("ledger") ELSE SanityExit(1, "wallet sanity")
    /\ UNCHANGED sarg
    /\ UNCHANGED <<nodeVars, card>>

\* lines 123-140
SanityLedger ==
    /\ spc = "ledger"
    /\ sobs' = NoObs
    /\ \E exists \in BOOLEAN, ok \in BOOLEAN :
        IF sarg.ledgerVerify = "true" /\ exists
        THEN /\ scalls' = Append(scalls, "ledger-verify")
             /\ IF ok THEN SanityGoto("validator")
                ELSE SanityExit(1, "ledger verify")
        ELSE /\ ok
             /\ UNCHANGED scalls
             /\ SanityGoto("validator")
    /\ UNCHANGED sarg
    /\ UNCHANGED <<nodeVars, card>>

\* a self-test whose every exit code is tolerated
SelfTestToleratedAny(exitcode) == TRUE

\* lines 145-153: ( ... ) || { exitcode=$?; [[ $exitcode -eq 124 ]] || exit $exitcode; }
SelfTestTolerated(exitcode) == exitcode = 0 \/ exitcode = TimeoutCode

\* the self-test without the scan of the log
SelfTestFailsOnExitCode(exitcode, panic) == ~SelfTestTolerated(exitcode)

\* lines 145-158: the self-test ends the run when the exit code is not
\* tolerated, and when the log holds the panic marker
SelfTestFails(exitcode, panic) == ~SelfTestTolerated(exitcode) \/ panic

\* the exit status it ends the run with
SelfTestStatus(exitcode) ==
    IF ~SelfTestTolerated(exitcode) THEN exitcode ELSE 1

\* the exit codes of the throwaway validator the model tries
SelfTestCodes == {0, 1, 101, TimeoutCode}

\* lines 143-165
SanityValidator ==
    /\ spc = "validator"
    /\ IF sarg.validatorSanity = "true"
       THEN /\ scalls' = Append(scalls, "validator-x.sh")
            /\ \E exitcode \in SelfTestCodes, panic \in BOOLEAN :
                /\ sobs' = [NoObs EXCEPT !.exitcode = exitcode,
                                         !.panic = panic]
                /\ IF SelfTestFails(exitcode, panic)
                   THEN SanityExit(SelfTestStatus(exitcode),
                            IF ~SelfTestTolerated(exitcode)
                            THEN "validator sanity" ELSE "Panic observed")
                   ELSE SanityGoto("install")
       ELSE /\ UNCHANGED scalls
            /\ sobs' = NoObs
            /\ SanityGoto("install")
    /\ UNCHANGED sarg
    /\ UNCHANGED <<nodeVars, card>>

\* lines 167-184; the solana-keygen pubkey of line 172 runs before
\* solana-install in the subshell, and its failure ends the script there
SanityInstall ==
    /\ spc = "install"
    /\ sobs' = NoObs
    /\ \E manifest \in BOOLEAN, pubkey \in BOOLEAN, ok \in BOOLEAN :
        IF manifest
        THEN IF pubkey
             THEN /\ scalls' = Append(scalls, "solana-install")
                  /\ IF ok
                     THEN spc' = "exited"
                          /\ sout' = [status |-> 0, msg |-> "", pass |-> TRUE]
                     ELSE SanityExit(1, "solana-install")
             ELSE /\ ok
                  /\ UNCHANGED scalls
                  /\ SanityExit(1, "solana-keygen pubkey")
        ELSE /\ ok /\ pubkey
             /\ UNCHANGED scalls
             /\ spc' = "exited"
             /\ sout' = [status |-> 0, msg |-> "", pass |-> TRUE]
    /\ UNCHANGED sarg
    /\ UNCHANGED <<nodeVars, card>>

\* ------------------------------------------------------------ input sets
With(over) == over @@ BaseArgs

\* every bootstrap of a cluster of 1..MaxNodes nodes
Bootstraps ==
    {With([nodeType |-> "bootstrap-validator", numNodes |-> Str(n),
           skipSetup |-> s, extraPrimordialStakes |-> e]) :
        n \in 1..MaxNodes, s \in {"true", "false"},
        e \in {"0", "1", Str(MaxNodes + 1)}}

\* the bootstraps of a cluster of MaxNodes nodes, with and without
\* primordial stakes
ClusterBootstraps ==
    {With([nodeType |-> "bootstrap-validator", extraPrimordialStakes |-> e,
           waitForNodeInit |-> "true"]) :
        e \in {"0", "1"}}

\* the joins of its validators and of its blockstreamer
Joins ==
    {With([nodeType |-> t, deployMethod |-> d, skipSetup |-> s,
           nodeIndex |-> i, extraPrimordialStakes |-> e,
           waitForNodeInit |-> w, maybeDisableAirdrops |-> x]) :
        t \in {"validator"}, d \in {"local"}, s \in {"true", "false"},
        i \in {"1", "2"}, e \in {"0", "1"}, w \in {"true", "false"},
        x \in {"", "1"}}
    \cup
    {With([nodeType |-> "blockstreamer", deployMethod |-> d, skipSetup |-> s]) :
        d \in {"local", "skip"}, s \in {"true", "false"}}

\* one invocation stopped by each validation
Rejected ==
    {With([extraPrimordialStakes |-> ""]), With([skipSetup |-> ""]),
     With([gpuMode |-> "fast"]), With([deployMethod |-> "rsync"]),
     With([nodeType |-> "archiver"])}

ClusterInputs == ClusterBootstraps \cup Joins \cup Rejected

ProvisionInputs == Bootstraps \cup {With([nodeIndex |-> "1"])} \cup Rejected

\* the keypair cache net/keypairs of the bootstrap host: empty, or holding
\* the three keypairs of node 1 and the blockstreamer identity
CachedNames ==
    {Identity("1"), VoteName(Identity("1")), StakeName(VoteName(Identity("1"))),
     BlockstreamerIdentity}

KeypairCaches ==
    {<<>>, [p \in {Cache(n) : n \in CachedNames} |-> CachedKey(p[2])]}

\* --------------------------------------------------------- specifications
NodeIdle ==
    /\ pc = "idle"
    /\ arg = NoArgs
    /\ args = <<>>
    /\ calls = <<>>
    /\ launched = <<>>
    /\ seen = NothingSeen
    /\ exitStatus = Running
    /\ errMsg = ""
    /\ runs = 0
    /\ stakedAtGenesis = {}
    /\ onReboot = [h \in Hosts |-> <<>>]

\* ------------------------------------------------------- InstructionCard
\* what the last click on the Raw button saw and did
NoClick == [showRaw |-> FALSE, raw |-> FALSE, fetched |-> FALSE]

\* the component before it is rendered for the first time
Unmounted ==
    [mounted |-> FALSE, defaultRaw |-> "undefined", showRaw |-> FALSE,
     raw |-> FALSE, pending |-> 0, fetches |-> 0, clicks |-> 0,
     last |-> NoClick]

\* the optional prop defaultRaw?: boolean as a condition
Truthy(v) == v = "true"

\* React.useState(defaultRaw || false)
InitialShowRaw(defaultRaw) == Truthy(defaultRaw)

\* the handler's test without its look at raw
ShouldFetchIgnoringRaw(defaultRaw, showRaw, raw) ==
    ~Truthy(defaultRaw) /\ ~showRaw

\* if (!defaultRaw && !showRaw && !raw)
ShouldFetch(defaultRaw, showRaw, raw) ==
    ~Truthy(defaultRaw) /\ ~showRaw /\ ~raw

\* the first render: the props, the initial state, and whether the
\* transaction details already hold the raw instruction of this index
Mount ==
    /\ card = Unmounted
    /\ \E d \in {"undefined", "false", "true"}, raw \in BOOLEAN :
        card' = [Unmounted EXCEPT !.mounted = TRUE, !.defaultRaw = d,
                                  !.showRaw = InitialShowRaw(d), !.raw = raw]
    /\ UNCHANGED <<nodeVars, sanityVars>>

\* a click on the Raw button, which is disabled when defaultRaw is set
rawClickHandler ==
    /\ card.mounted
    /\ ~Truthy(card.defaultRaw)
    /\ card.clicks < MaxClicks
    /\ LET f == ShouldFetch(card.defaultRaw, card.showRaw, card.raw)
       IN  card' = [card EXCEPT
                !.clicks = @ + 1,
                !.fetches = IF f THEN @ + 1 ELSE @,
                !.pending = IF f THEN @ + 1 ELSE @,
                !.last = [showRaw |-> card.showRaw, raw |-> card.raw,
                          fetched |-> f],
                !.showRaw = ~@]
    /\ UNCHANGED <<nodeVars, sanityVars>>

\* a raw-transaction fetch completes: the details now hold the raw
\* instruction of this index, or the fetch failed and they stay as they were
FetchCompletes ==
    /\ card.mounted
    /\ card.pending > 0
    /\ \E found \in BOOLEAN :
        card' = [card EXCEPT !.pending = @ - 1, !.raw = @ \/ found]
    /\ UNCHANGED <<nodeVars, sanityVars>>

SanityIdle ==
    /\ spc = "idle"
    /\ sarg = NoSanityArgs
    /\ sobs = NoObs
    /\ sout = NoOut
    /\ scalls = <<>>

\* two fresh hosts; only the keypair cache of the bootstrap host may be filled
Init ==
    /\ NodeIdle
    /\ SanityIdle
    /\ card = Unmounted
    /\ \E cache \in KeypairCaches : fs = [h \in Hosts |->
            IF h = "boot" THEN cache ELSE <<>>]
    /\ deployConfig = [h \in Hosts |-> <<>>]

Steps ==
    \/ Validate
    \/ WriteDeployConfig
    \/ CreateOnReboot
    \/ GpuMode
    \/ DeployMethodCase
    \/ NodeTypeCase
    \/ ClearConfig
    \/ SetupKeypair
    \/ Genesis
    \/ Snapshot
    \/ ShredVersion
    \/ BankHash
    \/ BootstrapLaunch
    \/ BootstrapWaitInit
    \/ FetchBinaries
    \/ FetchKeys
    \/ FetchShredVersion
    \/ FetchBankHash
    \/ FetchFaucet
    \/ BuildJoinArgs
    \/ ScpFaucet
    \/ JoinLaunch
    \/ JoinWaitInit
    \/ Catchup
    \/ Delegate

Next == Invoke(ClusterInputs, MaxRuns) \/ Steps

Spec == Init /\ [][Next]_vars

ProvisionNext == Invoke(ProvisionInputs, MaxRuns - 1) \/ Steps

ProvisionSpec == Init /\ [][ProvisionNext]_vars

\* every combination of empty and given required fields, with and without
\* $22, as a validator join; and the bootstrap the join needs
ValidationInputs ==
    {With([deployMethod |-> a, nodeType |-> b, entrypointIp |-> c,
           numNodes |-> d, skipSetup |-> e,
           failOnValidatorBootupFailure |-> f,
           extraPrimordialStakes |-> g]) :
        a \in {"", "local"}, b \in {"", "validator"}, c \in {"", "10.0.0.1"},
        d \in {"", Str(MaxNodes)}, e \in {"", "false"}, f \in {"", "true"},
        g \in {"", "0"}}
    \cup {With([nodeType |-> "bootstrap-validator"])}
    \cup Rejected

ValidationNext == Invoke(ValidationInputs, MaxRuns) \/ Steps

ValidationSpec == Init /\ [][ValidationNext]_vars

\* one cluster that is bootstrapped and joined, and then bootstrapped and
\* joined again
RejoinInputs ==
    {With([nodeType |-> "bootstrap-validator"])}
    \cup {With([nodeType |-> t, deployMethod |-> d, skipSetup |-> s]) :
            t \in {"validator", "blockstreamer"}, d \in {"local", "skip"},
            s \in {"true", "false"}}
    \cup Rejected

RejoinNext == Invoke(RejoinInputs, MaxRuns + 1) \/ Steps

\* the bootstraps of one cluster with and without a supermajority wait
\* (given with its value, without it, and after another option) and a warp
\* slot, and the joins of a validator and of the blockstreamer
HandshakeInputs ==
    {With([nodeType |-> "bootstrap-validator", extraNodeArgs |-> x,
           maybeWarpSlot |-> w, skipSetup |-> s]) :
        x \in {<<>>, <<"--wait-for-supermajority", "7">>,
               <<"--wait-for-supermajority">>,
               <<"--limit-ledger-size", "--wait-for-supermajority", "7">>},
        w \in {<<>>, <<"--warp-slot", "5">>}, s \in {"true", "false"}}
    \cup {With([nodeType |-> t, skipSetup |-> s]) :
            t \in {"validator", "blockstreamer"}, s \in {"true", "false"}}
    \cup {With([extraNodeArgs |-> <<"--wait-for-supermajority", "7">>])}
    \cup Rejected

HandshakeNext == Invoke(HandshakeInputs, MaxRuns) \/ Steps

HandshakeSpec == Init /\ [][HandshakeNext]_vars

\* a bootstrap and a join under every gpuMode: the four known ones, none
\* ($19 absent) and an unknown one, on a host with and without /dev/nvidia0
GpuInputs ==
    {With([nodeType |-> t, gpuMode |-> g, nvidia0 |-> d]) :
        t \in {"bootstrap-validator", "validator"},
        g \in {"", "on", "off", "auto", "cuda", "fast"}, d \in BOOLEAN}
    \cup Rejected

GpuNext == Invoke(GpuInputs, MaxRuns) \/ Steps

GpuSpec == Init /\ [][GpuNext]_vars

RejoinSpec == Init /\ [][RejoinNext]_vars

\* the bootstraps of a cluster of 1..MaxNodes nodes with and without
\* primordial balances for its nodes, and the join of a validator
BalanceInputs ==
    {With([nodeType |-> "bootstrap-validator", numNodes |-> Str(n),
           internalNodesLamports |-> l]) :
        n \in 1..MaxNodes, l \in {"", "500"}}
    \cup {With([internalNodesLamports |-> "500"])}
    \cup Rejected

BalanceNext == Invoke(BalanceInputs, MaxRuns) \/ Steps

BalanceSpec == Init /\ [][BalanceNext]_vars

\* the deployConfig files a sanity run may find: none, or one naming a
\* cluster of 1..MaxNodes nodes, with each field possibly empty or unknown
SanityConfigs ==
    {<<>>} \cup
    {<<[deployMethod |-> m, entrypointIp |-> ip, numNodes |-> n,
        failOnValidatorBootupFailure |-> f, airdropsEnabled |-> "true"]>> :
        m \in {"", "local", "tar", "skip"}, ip \in {"", "10.0.0.1"},
        n \in {""} \cup {Str(k) : k \in 1..MaxNodes},
        f \in {"", "true", "false"}}

\* the -o options of a sanity run: at most two of them, known or not
SanityOptionLists ==
    LET o == KnownOptions \cup {"verbose"}
    IN  {<<>>} \cup {<<a>> : a \in o} \cup {<<a, b>> : a \in o, b \in o}

SanityInit ==
    /\ NodeIdle
    /\ SanityIdle
    /\ card = Unmounted
    /\ fs = [h \in Hosts |-> <<>>]
    /\ \E c \in SanityConfigs : deployConfig = [h \in Hosts |->
            IF h = "boot" THEN c ELSE <<>>]

SanityNext ==
    \/ SanityInvoke(SanityOptionLists)
    \/ SanityConfig
    \/ SanityOptions
    \/ SanityDeployMethod
    \/ SanityNumNodes
    \/ SanityNodeCount
    \/ SanityRpc
    \/ SanityWallet
    \/ SanityLedger
    \/ SanityValidator
    \/ SanityInstall

SanitySpec == SanityInit /\ [][SanityNext]_vars

\* ------------------------------------------------------------ properties
Range(f) == {f[k] : k \in DOMAIN f}

Count(seq, x) == Cardinality({k \in DOMAIN seq : seq[k] = x})

\* the word after `flag` in an argument vector, "" if there is none
ArgAfter(a, flag) ==
    IF \E k \in 1..(Len(a) - 1) : a[k] = flag
    THEN a[(CHOOSE k \in 1..(Len(a) - 1) : a[k] = flag) + 1]
    ELSE ""

Joiner(a) == a.nodeType \in {"validator", "blockstreamer"}

\* genesis gave node nodeIndex a stake: 1 <= i <= min(extraPrimordialStakes,
\* numNodes)
Covered(a) ==
    /\ a.nodeType = "validator"
    /\ IsNumeral(a.extraPrimordialStakes)
    /\ Num(a.extraPrimordialStakes) >= 1
    /\ 1 <= Num(a.nodeIndex)
    /\ Num(a.nodeIndex) <= Min(Num(a.extraPrimordialStakes), Num(a.numNodes))

\* C1: a validator join whose node index is covered by the extra primordial
\* stakes never runs delegate-stake, whatever skipSetup, waitForNodeInit and
\* the airdrop setting are.
C1_NoDelegationWhenStaked ==
    Covered(arg) => "delegate-stake" \notin Range(calls)

\* a covered validator, staked by the genesis of its cluster, that caught up
\* and ended its join at the delegation step
C1_Witness ==
    /\ pc = "exited"
    /\ exitStatus = 0
    /\ Covered(arg)
    /\ arg.nodeIndex \in stakedAtGenesis
    /\ "catchup" \in Range(calls)
    /\ args = DelegateArgs(arg, fs["node"])

\* C3 (as claimed): an invocation with an empty required field ends with
\* status 1 and the message naming the first empty field, in the order
\* deployMethod, nodeType, entrypointIp, numNodes, skipSetup,
\* failOnValidatorBootupFailure; with all six given no "not specified"
\* error is produced.
C3_FirstMissingFieldReported ==
    pc = "exited" =>
        LET order == <<"deployMethod", "nodeType", "entrypointIp", "numNodes",
                       "skipSetup", "failOnValidatorBootupFailure">>
            empty == {k \in 1..6 : arg[order[k]] = ""}
            said(k) == errMsg = "Error: " \o order[k] \o " not specified"
        IN  /\ empty # {} =>
                /\ exitStatus = 1
                /\ \E k \in empty : said(k) /\ \A j \in empty : k <= j
            /\ empty = {} => \A k \in 1..6 : ~said(k)

\* C10 (as claimed): a validator join with skipSetup != true and
\* extraPrimordialStakes = 0 whose catchup call returned successfully has
\* run delegate-stake exactly once when it ends.
C10_DelegatesOnceAfterCatchup ==
    (/\ pc = "exited"
     /\ arg.nodeType = "validator"
     /\ arg.skipSetup # "true"
     /\ arg.extraPrimordialStakes = "0"
     /\ "catchup" \in Range(calls)
     /\ errMsg # "catchup failed")
    => Count(calls, "delegate-stake") = 1

\* the value of --expected-shred-version of the launched validator
ExpectedShredVersion ==
    ArgAfter(launched[1].args, "--expected-shred-version")

\* C2 (as claimed): every launched validator or blockstreamer join passes as
\* --expected-shred-version the value it fetched from the entrypoint in this
\* invocation, for every skipSetup and deployMethod.
C2_LaunchUsesFetchedShredVersion ==
    (launched # <<>> /\ Joiner(arg)) =>
        seen.shred # <<>> /\ ExpectedShredVersion = seen.shred[1]

\* C2 (amended): a launched join with skipSetup != true has fetched the
\* shred-version in this invocation, the fetched content has replaced the
\* local file, and it is the value passed unless it is empty; a launched
\* join with skipSetup = true has fetched nothing and passes the content of
\* the local file unless that is empty.  An empty content leaves no word in
\* the launch command.
C2_SetupLaunchUsesFetchedShredVersion ==
    (launched # <<>> /\ Joiner(arg)) =>
        IF arg.skipSetup # "true"
        THEN /\ seen.shred # <<>>
             /\ fs["node"][ShredVersionFile] = seen.shred[1]
             /\ seen.shred[1] # "" => ExpectedShredVersion = seen.shred[1]
             /\ seen.shred[1] = "" => "" \notin Range(launched[1].args)
        ELSE /\ seen.shred = <<>>
             /\ fs["node"][ShredVersionFile] # "" =>
                    ExpectedShredVersion = fs["node"][ShredVersionFile]
             /\ "" \notin Range(launched[1].args)

\* a join that found the shred-version of an earlier genesis in its config
\* directory and was launched with the one it fetched
C2_Witness ==
    /\ launched # <<>>
    /\ Joiner(arg)
    /\ arg.skipSetup # "true"
    /\ Has(seen.before, ShredVersionFile)
    /\ seen.shred # <<>>
    /\ seen.shred[1] # ""
    /\ seen.before[ShredVersionFile] # seen.shred[1]
    /\ ExpectedShredVersion = seen.shred[1]

\* the credential files of one identity
KeypairFiles(name) ==
    IF IsValidatorIdentity(name)
    THEN {name, VoteName(name), StakeName(VoteName(name))}
    ELSE {name}

\* the credential file `n` is the one the earlier setup left
SameAsBefore(n) ==
    Has(seen.before, Cfg(n)) => fs["boot"][Cfg(n)] = seen.before[Cfg(n)]

Provisioned ==
    /\ pc = "genesis"
    /\ arg.nodeType = "bootstrap-validator"

\* C4 (as claimed): after a bootstrap setup has provisioned its keypairs,
\* every credential file that an earlier setup had produced is identical to
\* the earlier one, whether or not the keypair is in the keypair cache.
C4_ProvisioningIdempotent ==
    Provisioned =>
        \A k \in DOMAIN KeypairNames(arg.numNodes) :
            \A n \in KeypairFiles(KeypairNames(arg.numNodes)[k]) :
                SameAsBefore(n)

\* C4 (amended): that holds of the identities whose keypair is in the
\* keypair cache.
C4_CachedProvisioningIdempotent ==
    Provisioned =>
        \A k \in DOMAIN KeypairNames(arg.numNodes) :
            Has(fs["boot"], Cache(KeypairNames(arg.numNodes)[k])) =>
                \A n \in KeypairFiles(KeypairNames(arg.numNodes)[k]) :
                    SameAsBefore(n)

\* a second setup that found the credential files of cached node 1 and left
\* the same ones
C4_Witness ==
    /\ Provisioned
    /\ runs >= 2
    /\ Has(fs["boot"], Cache(Identity("1")))
    /\ \A n \in KeypairFiles(Identity("1")) :
        /\ Has(seen.before, Cfg(n))
        /\ fs["boot"][Cfg(n)] = seen.before[Cfg(n)]

\* the first position of x in seq
Pos(seq, x) == CHOOSE k \in DOMAIN seq : seq[k] = x /\ \A j \in 1..(k - 1) : seq[j] # x

\* C8: a bootstrap with skipSetup != true, numNodes = N and
\* extraPrimordialStakes = 0 that launches its validator has provisioned the
\* identity, vote and stake keypairs of the nodes 1..N and the one
\* blockstreamer identity and no others, has run the genesis setup once,
\* and has written the shred-version file after genesis and before the
\* launch.
C8_BootstrapProvisionsNodesAndGenesisOnce ==
    (/\ launched # <<>>
     /\ arg.nodeType = "bootstrap-validator"
     /\ arg.skipSetup # "true"
     /\ arg.extraPrimordialStakes = "0")
    =>  LET N == Num(arg.numNodes)
            keypairs == {p \in DOMAIN fs["boot"] :
                            /\ p[1] = "config"
                            /\ p[2][1] \in {"validator", "blockstreamer"}}
        IN  /\ keypairs =
                    {Cfg(<<"validator", kind, Str(i)>>) :
                        kind \in {"identity", "vote", "stake"}, i \in 1..N}
                    \cup {Cfg(<<"blockstreamer", "identity">>)}
            /\ Count(calls, "setupValidatorKeypair") = N + 1
            /\ Count(calls, "setup.sh") = 1
            /\ Count(calls, "shred-version") = 1
            /\ Count(calls, "on-reboot") = 1
            /\ Has(fs["boot"], ShredVersionFile)
            /\ Pos(calls, "setup.sh") < Pos(calls, "shred-version")
            /\ Pos(calls, "shred-version") < Pos(calls, "on-reboot")

\* a bootstrap of MaxNodes nodes, none of them in the keypair cache, that
\* has launched its validator
C8_Witness ==
    /\ launched # <<>>
    /\ arg.nodeType = "bootstrap-validator"
    /\ arg.skipSetup # "true"
    /\ arg.extraPrimordialStakes = "0"
    /\ arg.numNodes = Str(MaxNodes)
    /\ ~Has(fs["boot"], Cache(Identity("1")))
    /\ Has(fs["boot"], ShredVersionFile)

\* C9 (as claimed): once a remote fetch of a join has failed, the invocation
\* has ended with a failure status and has launched nothing.
C9_FetchFailureStopsJoin ==
    seen.failed # {} =>
        pc = "exited" /\ exitStatus # 0 /\ launched = <<>>

\* C9 (amended): that holds of every fetch but the one of the bank-hash.
C9_FetchFailureButBankHashStopsJoin ==
    seen.failed \ {"bank-hash"} # {} =>
        pc = "exited" /\ exitStatus # 0 /\ launched = <<>>

\* a join that fetched its keypairs and ended at the failed fetch of the
\* shred-version
C9_Witness ==
    /\ pc = "exited"
    /\ "shred-version" \in seen.failed
    /\ "rsync:keypairs" \in Range(calls)
    /\ Has(fs["node"], LocalIdentity)
    /\ launched = <<>>

\* the sanity run has ended as a failure
SanityFailed ==
    /\ spc = "exited"
    /\ sout.status # 0
    /\ ~sout.pass

\* C5: when the discovery probe has run against p peers with the expected
\* count N, the run has failed iff p # N with rejectExtraNodes, and iff
\* p < N without it; a run that has not failed goes on to the RPC check.
C5_ProbeFailsOnWrongPeerCount ==
    sobs.spy # "" =>
        LET N == Num(sarg.numSanityNodes)
            p == sobs.peers
        IN  /\ sarg.rejectExtraNodes = "true" => (SanityFailed <=> p # N)
            /\ sarg.rejectExtraNodes # "true" => (SanityFailed <=> p < N)
            /\ SanityFailed \/ (spc = "rpc" /\ sout.status = Running)

\* a strict probe that saw one peer more than the MaxNodes expected and
\* failed the run
C5_Witness ==
    /\ sobs.spy # ""
    /\ sarg.rejectExtraNodes = "true"
    /\ Num(sarg.numSanityNodes) = MaxNodes
    /\ sobs.peers = MaxNodes + 1
    /\ SanityFailed

\* C6: when the discovery probe is still short of its peer count after its
\* two minutes, the run has ended with the status 124, which is not the
\* status 1 of the other failures, the probe is the last step it ran, and
\* it has not reported Pass.
C6_ProbeTimeoutEndsRunWith124 ==
    sobs.spy = "waiting" =>
        /\ spc = "exited"
        /\ sout.status = TimeoutCode
        /\ sout.status # 1
        /\ ~sout.pass
        /\ scalls[Len(scalls)] = "spy"
        /\ Range(scalls) \cap {"curl", "wallet-sanity.sh", "ledger-verify",
                               "validator-x.sh", "solana-install"} = {}

\* a strict probe for MaxNodes nodes that saw no peer in its two minutes
C6_Witness ==
    /\ sobs.spy = "waiting"
    /\ sarg.rejectExtraNodes = "true"
    /\ Num(sarg.numSanityNodes) = MaxNodes
    /\ sobs.peers = 0
    /\ sout.status = TimeoutCode

\* C7: when the validator self-test has run and its log holds the panic
\* marker, the run has ended with a nonzero status and without Pass,
\* whatever the exit code of the throwaway validator.
C7_PanicFailsRun ==
    \A code \in SelfTestCodes :
        (sobs.panic /\ sobs.exitcode = code) =>
            /\ sarg.validatorSanity = "true"
            /\ SanityFailed

\* a self-test that ended at its ten seconds with a panic in its log
C7_Witness ==
    /\ sobs.panic
    /\ sobs.exitcode = TimeoutCode
    /\ scalls[Len(scalls)] = "validator-x.sh"
    /\ SanityFailed
    /\ sout.status = 1

\* the capability pair of the running invocation
GpuPair == <<arg.GPU_CUDA_OK, arg.GPU_FAIL_IF_NONE>>

\* C12 (as claimed): once gpuMode is normalized it is one of on, off, auto,
\* cuda, the GPU is required exactly for on and cuda, and on and cuda have
\* different capability pairs; an invocation with any other gpuMode launches
\* nothing and ends with status 1.
C12_GpuModeNormalization ==
    /\ (GpuPair # <<"", "">> /\ pc # "exited") =>
        arg.gpuMode \in {"on", "off", "auto", "cuda"}
    /\ (GpuPair # <<"", "">>
            /\ arg.gpuMode \in {"on", "off", "auto", "cuda"}) =>
        /\ arg.GPU_FAIL_IF_NONE = "true" <=> arg.gpuMode \in {"on", "cuda"}
        /\ arg.gpuMode = "on" => GpuPair # GpuFlags("cuda")
        /\ arg.gpuMode = "cuda" => GpuPair # GpuFlags("on")
    /\ (pc # "idle" /\ arg.gpuMode \notin {"on", "off", "auto", "cuda"}) =>
        /\ launched = <<>>
        /\ pc = "exited" => exitStatus = 1

\* the installer check has ended the run before its solana-install
InstallerKeyFailed ==
    /\ spc = "exited"
    /\ sout.msg = "solana-keygen pubkey"

\* the validator self-test is the step the sanity run has just taken
SelfTestJustRan ==
    /\ scalls # <<>>
    /\ scalls[Len(scalls)] = "validator-x.sh"
    /\ ~sout.pass
    /\ ~InstallerKeyFailed

\* C14: after the validator self-test, an exit code of 0 or 124 has led to
\* the panic scan, which alone decides whether the run goes on; any other
\* exit code c has ended the run with status c and without Pass.  Every
\* error message of a sanity run comes with a nonzero status and no Pass,
\* that of the installer check's solana-keygen pubkey with status 1, after a
\* self-test that ran and went on, and before any solana-install.
C14_SelfTestExitCodeHandling ==
    /\ SelfTestJustRan =>
        IF sobs.exitcode \in {0, TimeoutCode}
        THEN IF sobs.panic
             THEN SanityFailed /\ sout.status = 1
             ELSE spc = "install" /\ sout.status = Running
        ELSE SanityFailed /\ sout.status = sobs.exitcode
    /\ (spc = "exited" /\ sout.msg # "") => SanityFailed
    /\ InstallerKeyFailed =>
        /\ sout.status = 1
        /\ Count(scalls, "solana-install") = 0
        /\ sarg.validatorSanity = "true" =>
                scalls[Len(scalls)] = "validator-x.sh"

\* a self-test that ended with 101 and a clean log, and the run with it
C14_Witness ==
    /\ SelfTestJustRan
    /\ sobs.exitcode = 101
    /\ ~sobs.panic
    /\ SanityFailed
    /\ sout.status = 101

\* the RPC liveness request is the step the sanity run has just taken
RpcJustRan ==
    /\ scalls # <<>>
    /\ scalls[Len(scalls)] = "curl"

\* C15 (as claimed): the RPC liveness step has sent its request at most 5
\* times, and when it has failed the run, the 5th attempt was the last.
C15_AtMostFiveRequests ==
    RpcJustRan =>
        /\ sobs.attempts \in 1..5
        /\ spc = "exited" => (sobs.attempts = 5 /\ SanityFailed)
        /\ spc # "exited" => spc = "wallet"

\* C15 (amended): the step has sent its request at most 6 times, the first
\* attempt and the 5 retries, and when it has failed the run, the 6th
\* attempt was the last.
C15_AtMostSixRequests ==
    RpcJustRan =>
        /\ sobs.attempts \in 1..(CurlRetries + 1)
        /\ spc = "exited" => (sobs.attempts = CurlRetries + 1 /\ SanityFailed)
        /\ spc # "exited" => spc = "wallet"

\* a request refused five times and answered at the sixth attempt
C15_Witness ==
    /\ RpcJustRan
    /\ sobs.attempts = CurlRetries + 1
    /\ spc = "wallet"

\* C17 (as claimed): when the bootstrap has run the genesis setup with
\* extraPrimordialStakes = k and numNodes = N, the arguments it passed end
\* with exactly min(k, N) --bootstrap-validator triples, the identity, vote
\* and stake pubkeys of the nodes 1..min(k, N) in order, and it has printed
\* the clamp warning iff k > N.
C17_GenesisStakeTriples ==
    (pc = "snapshot" /\ arg.nodeType = "bootstrap-validator") =>
        LET N == Num(arg.numNodes)
            k == Num(arg.p22)
            m == Min(k, N)
            pub(kind, t) ==
                Pubkey(fs["boot"][Cfg(<<"validator", kind, Str(t)>>)])
        IN  /\ Count(args, "--bootstrap-validator") = m
            /\ Len(args) >= 4 * m
            /\ \A t \in 1..m :
                LET o == Len(args) - (4 * m) + (4 * (t - 1))
                IN  /\ args[o + 1] = "--bootstrap-validator"
                    /\ args[o + 2] = pub("identity", t)
                    /\ args[o + 3] = pub("vote", t)
                    /\ args[o + 4] = pub("stake", t)
            /\ seen.warning # <<>> <=> k > N
            /\ stakedAtGenesis = {Str(t) : t \in 1..m}

\* the bank-hash expectation of the launched validator, "" if it has none
ExpectedBankHash ==
    ArgAfter(launched[1].args, "--expected-bank-hash")

\* C18: a bootstrap setup that has launched its validator has computed the
\* bank-hash, written it to config/bank-hash and passed it as
\* --expected-bank-hash iff its extra node arguments hold
\* --wait-for-supermajority followed by a value; it has written the
\* shred-version file in either case, with the shred version of its genesis
\* or, when the ledger tool failed, with nothing.
C18_BankHashIffSupermajorityWait ==
    (/\ launched # <<>>
     /\ arg.nodeType = "bootstrap-validator"
     /\ arg.skipSetup # "true")
    =>  LET configured ==
                ArgAfter(arg.extraNodeArgs, "--wait-for-supermajority") # ""
        IN  /\ configured <=> "bank-hash" \in Range(calls)
            /\ configured <=> Has(fs["boot"], BankHashFile)
            /\ configured <=>
                    "--expected-bank-hash" \in Range(launched[1].args)
            /\ configured =>
                /\ fs["boot"][BankHashFile] = BankHashOf(runs)
                /\ ExpectedBankHash = BankHashOf(runs)
            /\ "shred-version" \in Range(calls)
            /\ Has(fs["boot"], ShredVersionFile)
            /\ fs["boot"][ShredVersionFile] \in {ShredOf(runs), ""}

\* a second bootstrap setup, with the wait given after another option, that
\* launched its validator with the bank-hash of its own genesis
C18_Witness ==
    /\ launched # <<>>
    /\ arg.nodeType = "bootstrap-validator"
    /\ arg.skipSetup # "true"
    /\ runs >= 2
    /\ arg.extraNodeArgs # <<>>
    /\ arg.extraNodeArgs[1] = "--limit-ledger-size"
    /\ ExpectedBankHash = BankHashOf(runs)
    /\ fs["boot"][BankHashFile] = BankHashOf(runs)

HasBankHashFlag == "--expected-bank-hash" \in Range(launched[1].args)

\* C19 (as claimed): a launched joiner carries --expected-bank-hash iff the
\* bootstrap node has a bank-hash, and then with the bootstrap's value.
C19_JoinerCarriesBootstrapBankHash ==
    (launched # <<>> /\ Joiner(arg)) =>
        /\ HasBankHashFlag <=> Has(fs["boot"], BankHashFile)
        /\ Has(fs["boot"], BankHashFile) =>
                ExpectedBankHash = fs["boot"][BankHashFile]

\* C19 (amended): a launched joiner with skipSetup != true carries
\* --expected-bank-hash iff its fetch of the bootstrap's bank-hash file
\* succeeded, and then with the bootstrap's value; a launched joiner with
\* skipSetup = true carries it iff its own config directory holds a
\* bank-hash file, with the value of that file.
C19_JoinerCarriesFetchedBankHash ==
    (launched # <<>> /\ Joiner(arg)) =>
        IF arg.skipSetup # "true"
        THEN /\ HasBankHashFlag <=> "bank-hash" \notin seen.failed
             /\ HasBankHashFlag =>
                    /\ Has(fs["boot"], BankHashFile)
                    /\ ExpectedBankHash = fs["boot"][BankHashFile]
                    /\ ExpectedBankHash = seen.bankHash
        ELSE /\ HasBankHashFlag <=> Has(fs["node"], BankHashFile)
             /\ HasBankHashFlag =>
                    ExpectedBankHash = fs["node"][BankHashFile]

\* a joiner launched with the bank-hash it fetched from the bootstrap node
C19_Witness ==
    /\ launched # <<>>
    /\ Joiner(arg)
    /\ arg.skipSetup # "true"
    /\ seen.bankHash # ""
    /\ ExpectedBankHash = seen.bankHash
    /\ ExpectedBankHash = fs["boot"][BankHashFile]

\* x comes before y in seq, if both are there
Before(seq, x, y) ==
    (x \in Range(seq) /\ y \in Range(seq)) => Pos(seq, x) < Pos(seq, y)

\* C20: in a join the handshake files are fetched before the launch, the
\* launch comes before the init wait, the init wait before catchup and
\* catchup before the delegation; catchup runs only once the process is
\* launched, the delegation step is reached only after a successful
\* catchup, and a blockstreamer join runs neither.
C20_JoinStepOrder ==
    Joiner(arg) =>
        /\ \A f \in {"rsync:keypairs", "rsync:shred-version",
                     "rsync:bank-hash", "rsync:faucet"} :
                Before(calls, f, "on-reboot")
        /\ Before(calls, "on-reboot", "wait-init")
        /\ Before(calls, "wait-init", "catchup")
        /\ Before(calls, "on-reboot", "catchup")
        /\ Before(calls, "catchup", "delegate-stake")
        /\ "on-reboot" \in Range(calls) <=> launched # <<>>
        /\ "catchup" \in Range(calls) => launched # <<>>
        /\ ("delegate-stake" \in Range(calls) \/ pc = "delegate") =>
                /\ "catchup" \in Range(calls)
                /\ errMsg # "catchup failed"
        /\ Count(calls, "catchup") <= 1
        /\ arg.nodeType = "blockstreamer" =>
                /\ "catchup" \notin Range(calls)
                /\ "delegate-stake" \notin Range(calls)
                /\ pc \notin {"catchup", "delegate"}

\* a validator join that fetched, launched, waited for the init, caught up
\* and came to its delegation step
C20_Witness ==
    /\ arg.nodeType = "validator"
    /\ pc = "delegate"
    /\ launched # <<>>
    /\ calls = <<"fetch-perf-libs.sh", "rsync:bin", "clear_config_dir",
                 "rsync:keypairs",
                 "rsync:shred-version", "rsync:bank-hash", "rsync:faucet",
                 "scp:faucet", "on-reboot", "wait-init", "catchup">>

\* a required field of the invocation is empty
FieldMissing(a) ==
    \E f \in {"deployMethod", "nodeType", "entrypointIp", "numNodes",
              "skipSetup", "failOnValidatorBootupFailure"} : a[f] = ""

\* the inputs of the invocation fail one of the validations
InputInvalid(a) ==
    \/ FieldMissing(a)
    \/ a.gpuMode \notin {"on", "off", "auto", "cuda"}
    \/ a.deployMethod \notin {"local", "tar", "skip"}
    \/ a.nodeType \notin {"bootstrap-validator", "validator", "blockstreamer"}

\* C16 (as claimed): an invocation whose inputs fail a validation (an empty
\* required field, an unknown gpuMode, deployMethod or nodeType) writes
\* neither the deployConfig file nor the on-reboot hook.
C16_NoWriteOnInvalidInput ==
    (pc # "idle" /\ InputInvalid(arg)) => seen.written = {}

\* C16 (amended): an invocation with an empty required field writes neither
\* the deployConfig file nor the on-reboot hook, and the deployConfig file
\* is written only by invocations whose six required fields are given; the
\* on-reboot hook is not written before the deployConfig file.
C16_NoWriteOnMissingField ==
    /\ (pc # "idle" /\ FieldMissing(arg)) =>
            /\ seen.written = {}
            /\ pc \in {"validate", "exited"}
    /\ "on-reboot" \in seen.written => "deployConfig" \in seen.written
    /\ "deployConfig" \in seen.written =>
            /\ deployConfig[Host] # <<>>
            /\ deployConfig[Host][1].deployMethod = arg.deployMethod
            /\ deployConfig[Host][1].numNodes = arg.numNodes

\* a second invocation on a host, stopped for its empty last required field,
\* that left the deployConfig file and the hook of the first as they were
C16_Witness ==
    /\ pc = "exited"
    /\ runs >= 2
    /\ arg.failOnValidatorBootupFailure = ""
    /\ errMsg = "Error: failOnValidatorBootupFailure not specified"
    /\ seen.written = {}
    /\ deployConfig[Host] # <<>>
    /\ onReboot[Host] # <<>>

\* the supermajority wait of the invocation, "" if it has none
WaitConfigured == ArgAfter(arg.extraNodeArgs, "--wait-for-supermajority")

\* C11 (as claimed): a validator process launched under a supermajority
\* wait was launched with at least that much stake observed.
C11_LaunchWaitsForStake ==
    (launched # <<>> /\ IsNumeral(WaitConfigured)) =>
        seen.stake >= Num(WaitConfigured)

\* C11 (amended): a validator process launched under a supermajority wait
\* was launched whatever the stake, with --wait-for-supermajority and its
\* value among its arguments, and on a bootstrap setup with the bank-hash
\* expectation as well.
C11_LaunchPassesWaitOn ==
    (launched # <<>> /\ WaitConfigured # "") =>
        /\ ArgAfter(launched[1].args, "--wait-for-supermajority")
                = WaitConfigured
        /\ (arg.nodeType = "bootstrap-validator" /\ arg.skipSetup # "true")
                => HasBankHashFlag

\* a bootstrap validator launched under a supermajority wait while the
\* cluster showed no stake
C11_Witness ==
    /\ launched # <<>>
    /\ arg.nodeType = "bootstrap-validator"
    /\ IsNumeral(WaitConfigured)
    /\ seen.stake = 0
    /\ seen.stake < Num(WaitConfigured)
    /\ ArgAfter(launched[1].args, "--wait-for-supermajority") = WaitConfigured

\* ------------------------------------------- validation failures, both scripts
\* remote-node.sh is invoked on fresh hosts, then remote-sanity.sh runs on the
\* bootstrap host once no invocation is in progress; the bootstrap host
\* starts with no deployConfig or with one of MaxNodes nodes, any of its
\* fields empty
FailureInputs ==
    {With([nodeType |-> "bootstrap-validator"]), With([nodeType |-> "validator"]),
     With([nodeType |-> "bootstrap-validator", deployMethod |-> "rsync"]),
     With([nodeType |-> "bootstrap-validator", deployMethod |-> "skip"]),
     With([nodeType |-> "archiver"])}

FailureInit ==
    /\ NodeIdle
    /\ SanityIdle
    /\ card = Unmounted
    /\ fs = [h \in Hosts |-> <<>>]
    /\ \E c \in {d \in SanityConfigs :
                    d # <<>> => /\ d[1].numNodes \in {"", Str(MaxNodes)}
                                /\ d[1].failOnValidatorBootupFailure # "false"} :
            deployConfig = [h \in Hosts |-> IF h = "boot" THEN c ELSE <<>>]

FailureNext ==
    \/ spc = "idle" /\ (Invoke(FailureInputs, MaxRuns - 1) \/ Steps)
    \/ pc \in {"idle", "exited"} /\ SanityNext

FailureSpec == FailureInit /\ [][FailureNext]_vars

\* the invocation names a deployMethod or a nodeType the script does not know
NodeInputUnknown ==
    \/ arg.deployMethod \notin {"local", "tar", "skip"}
    \/ arg.nodeType \notin {"bootstrap-validator", "validator", "blockstreamer"}

\* the sanity run found no deployConfig or an empty required field in it, was
\* given an unknown -o option, or read a deployMethod it does not know
SanityInputInvalid ==
    \/ SanityFirstMissing(sarg) # ""
    \/ \E k \in DOMAIN sarg.opts : sarg.opts[k] \notin KnownOptions
    \/ sarg.deployMethod \notin {"local", "tar"}

\* C13: an invocation of remote-node.sh with an unknown deployMethod or
\* nodeType launches nothing and, once ended, has status 1; a sanity run
\* with no deployConfig, an empty required field, an unknown -o option or an
\* unknown deployMethod sends no probe, never passes and, once ended, has
\* status 1.
C13_ValidationFailuresExitOne ==
    /\ (pc # "idle" /\ NodeInputUnknown) =>
            /\ launched = <<>>
            /\ pc = "exited" => exitStatus = 1
    /\ (spc # "idle" /\ SanityInputInvalid) =>
            /\ scalls = <<>>
            /\ ~sout.pass
            /\ spc = "exited" => sout.status = 1

\* remote-node.sh has ended on an unknown deployMethod, which it wrote to
\* deployConfig before, and the sanity run that read it has ended on it too
C13_Witness ==
    /\ pc = "exited" /\ exitStatus = 1 /\ launched = <<>>
    /\ arg.deployMethod \notin {"local", "tar", "skip"}
    /\ errMsg = "Unknown deployment method"
    /\ spc = "exited" /\ sout.status = 1 /\ scalls = <<>>
    /\ sarg.deployMethod = arg.deployMethod
    /\ sout.msg = "Unknown deployment method"

\* ------------------------------------------------------ the init wait
\* a bootstrap, and the joins of a validator and of the blockstreamer, each
\* with waitForNodeInit true, false and not given
WaitInputs ==
    {With([nodeType |-> t, skipSetup |-> s, waitForNodeInit |-> w]) :
        t \in {"bootstrap-validator", "validator", "blockstreamer"},
        s \in {"true", "false"}, w \in {"true", "false", ""}}
    \cup Rejected

WaitNext == Invoke(WaitInputs, MaxRuns) \/ Steps

WaitSpec == Init /\ [][WaitNext]_vars

\* the hook returned a failure and ended the invocation at its launch step
HookFailed ==
    /\ pc = "exited"
    /\ errMsg = "on-reboot: disown: no such job"

\* the invocation is past its init wait
PastInitWait ==
    \/ pc \in {"catchup", "delegate"}
    \/ (pc = "exited" /\ launched # <<>> /\ ~HookFailed)

\* C21: past the launch, an invocation with waitForNodeInit true has waited
\* for the init-complete marker with a bound of 600 seconds and one with
\* waitForNodeInit false has not waited; an invocation ended by the marker
\* not appearing has a failure status, has run neither catchup nor
\* delegate-stake, and leaves the validator process it launched.  An
\* invocation that its hook ended at the launch step has status 1 and has
\* not come to the wait.
C21_InitWait ==
    /\ (PastInitWait /\ arg.waitForNodeInit = "true") =>
            /\ Count(calls, "wait-init") = 1
            /\ seen.waited = 600
    /\ (PastInitWait /\ arg.waitForNodeInit = "false") =>
            /\ Count(calls, "wait-init") = 0
            /\ seen.waited = 0
    /\ (pc = "exited" /\ errMsg = "init timeout") =>
            /\ exitStatus \notin {Running, 0}
            /\ calls[Len(calls)] = "wait-init"
            /\ Count(calls, "catchup") = 0
            /\ Count(calls, "delegate-stake") = 0
            /\ launched # <<>>
            /\ onReboot[Host] # <<>>
    /\ HookFailed =>
            /\ exitStatus = 1
            /\ calls[Len(calls)] = "on-reboot"
            /\ Count(calls, "wait-init") = 0
            /\ launched # <<>>

\* a validator that would have gone on to catchup, ended by the marker not
\* appearing, its process launched
C21_Witness ==
    /\ pc = "exited" /\ errMsg = "init timeout" /\ exitStatus = 1
    /\ arg.nodeType = "validator" /\ arg.waitForNodeInit = "true"
    /\ WantsCatchup(arg)
    /\ launched # <<>> /\ launched[1].cmd = "validator.sh"
    /\ seen.waited = 600
    /\ Count(calls, "catchup") = 0

\* C22: a launch under gpuMode on or cuda on a host without the GPU device
\* has the GPU-missing flag set and has started the validator process; no
\* launch has both the CUDA flag and the GPU-missing flag; the GPU-missing
\* flag is set only under on or cuda without the device; under off neither
\* flag is set.
C22_GpuSoftFail ==
    launched # <<>> =>
        /\ (arg.gpuMode \in {"on", "cuda"} /\ ~seen.nvidia0) =>
                /\ "SOLANA_GPU_MISSING" \in seen.env
                /\ Len(launched) = 1
        /\ ~({"SOLANA_CUDA", "SOLANA_GPU_MISSING"} \subseteq seen.env)
        /\ "SOLANA_GPU_MISSING" \in seen.env =>
                (arg.gpuMode \in {"on", "cuda"} /\ ~seen.nvidia0)
        /\ arg.gpuMode = "off" => seen.env = {}
        /\ (arg.gpuMode \in {"on", "cuda", "auto"} /\ seen.nvidia0) =>
                seen.env = {"SOLANA_CUDA"}

\* a validator launched under gpuMode on without the device
C22_Witness ==
    /\ launched # <<>>
    /\ arg.gpuMode = "on" /\ ~seen.nvidia0
    /\ seen.env = {"SOLANA_GPU_MISSING"}
    /\ launched[1].cmd = "validator.sh"
    /\ pc = "exited" /\ exitStatus = 0

\* the validator launch commands of the hook of host h
HookLaunches(h) ==
    {k \in DOMAIN onReboot[h] :
        onReboot[h][k].cmd \in {"bootstrap-validator.sh", "validator.sh"}}

\* C23: the on-reboot hook of a host never holds more than one validator
\* launch command; an invocation that has launched has started one process,
\* by running the hook once, and the single launch command of the hook is
\* that process's command, the script of the invocation's role with its
\* argument vector; every successful invocation has launched.
C23_RebootHook ==
    /\ \A h \in Hosts : Cardinality(HookLaunches(h)) <= 1
    /\ launched # <<>> =>
        /\ Len(launched) = 1
        /\ Count(calls, "on-reboot") = 1
        /\ Cardinality(HookLaunches(Host)) = 1
        /\ \A k \in HookLaunches(Host) : onReboot[Host][k] = launched[1]
        /\ launched[1].cmd =
                (IF arg.nodeType = "bootstrap-validator"
                 THEN "bootstrap-validator.sh" ELSE "validator.sh")
    /\ launched = <<>> => Count(calls, "on-reboot") = 0
    /\ (pc = "exited" /\ exitStatus = 0) => launched # <<>>

\* a successful blockstreamer invocation that follows two others, the hook
\* of its host holding the blockstreamer's command alone
C23_Witness ==
    /\ runs >= 3
    /\ pc = "exited" /\ exitStatus = 0
    /\ arg.nodeType = "blockstreamer"
    /\ Cardinality(HookLaunches("node")) = 1
    /\ \A k \in HookLaunches("node") : onReboot["node"][k] = launched[1]
    /\ ArgAfter(launched[1].args, "--identity") # ""

\* the commands of the sanity steps in the order of the script: discovery
\* probe (keygen, spy), RPC liveness, wallet sanity, ledger verification,
\* validator self-test, installer check
SanitySteps ==
    <<"solana-keygen", "spy", "curl", "wallet-sanity.sh", "ledger-verify",
      "validator-x.sh", "solana-install">>

StepNo(c) == CHOOSE k \in DOMAIN SanitySteps : SanitySteps[k] = c

\* the command the message of a failed run names
FailedStep(msg) ==
    CASE msg = "solana-keygen" -> "solana-keygen"
      [] msg = "node count" -> "spy"
      [] msg = "curl: connection refused" -> "curl"
      [] msg = "wallet sanity" -> "wallet-sanity.sh"
      [] msg = "ledger verify" -> "ledger-verify"
      [] msg \in {"validator sanity", "Panic observed"} -> "validator-x.sh"
      [] msg = "solana-install" -> "solana-install"
      [] OTHER -> ""

\* the steps that run whatever the options and the files found
AlwaysRun == {"solana-keygen", "spy", "curl", "wallet-sanity.sh"}

\* C24: the commands of a sanity run are run in the order of the steps, none
\* twice and none of the first four left out before a later one; a step
\* disabled by option is not run; a run that has ended without Pass has a
\* non-zero status, and if a step failed it is the last command run, but for
\* the installer check stopped by its solana-keygen pubkey, which comes
\* after every step that always runs, and the self-test unless disabled,
\* and has run no solana-install; Pass goes with status 0 and with every
\* step that always runs, and the self-test unless disabled, having run.
C24_SanitySequencing ==
    /\ \A i, j \in DOMAIN scalls :
            i < j => StepNo(scalls[i]) < StepNo(scalls[j])
    /\ \A j \in DOMAIN scalls :
            \A c \in AlwaysRun :
                StepNo(c) < StepNo(scalls[j]) => Count(scalls, c) = 1
    /\ Count(scalls, "ledger-verify") = 1 => sarg.ledgerVerify = "true"
    /\ Count(scalls, "validator-x.sh") = 1 => sarg.validatorSanity = "true"
    /\ spc # "exited" => (sout.status = Running /\ ~sout.pass)
    /\ (spc = "exited" /\ ~sout.pass) =>
            /\ sout.status \notin {0, Running}
            /\ IF sout.msg = "solana-keygen pubkey"
               THEN /\ Count(scalls, "solana-install") = 0
                    /\ \A c \in AlwaysRun : Count(scalls, c) = 1
                    /\ sarg.validatorSanity = "true" =>
                            Count(scalls, "validator-x.sh") = 1
               ELSE scalls # <<>> =>
                            scalls[Len(scalls)] = FailedStep(sout.msg)
    /\ (spc = "exited" /\ sout.status = 0) => sout.pass
    /\ sout.pass =>
            /\ spc = "exited" /\ sout.status = 0 /\ sout.msg = ""
            /\ \A c \in AlwaysRun : Count(scalls, c) = 1
            /\ sarg.validatorSanity = "true" => Count(scalls, "validator-x.sh") = 1

\* a run with every step enabled that the ledger verification has ended:
\* discovery, RPC and wallet ran before it, self-test and installer did not run
C24_Witness ==
    /\ spc = "exited" /\ sout.msg = "ledger verify" /\ sout.status = 1
    /\ scalls = <<"solana-keygen", "spy", "curl", "wallet-sanity.sh",
                  "ledger-verify">>
    /\ sarg.validatorSanity = "true"

\* the bootstrap setup is past its snapshot step
PastSnapshot ==
    /\ arg.nodeType = "bootstrap-validator" /\ arg.skipSetup # "true"
    /\ \/ pc = "shredVersion"
       \/ Count(calls, "create-snapshot") = 1
       \/ Count(calls, "shred-version") = 1

\* C25 (as claimed): on a bootstrap setup the snapshot is created iff a warp
\* slot was given or a supermajority wait value was found; when it is
\* created without a warp slot given, its warp slot is the wait value; no
\* --warp-slot without a value is passed to the ledger tool.
C25_SnapshotIffWarpOrWait ==
    PastSnapshot =>
        /\ Count(calls, "create-snapshot") = 1 <=>
                (seen.given # <<>> \/ arg.maybeWaitForSupermajority # "")
        /\ (Count(calls, "create-snapshot") = 1 /\ seen.given = <<>>) =>
                seen.warp = <<"--warp-slot", arg.maybeWaitForSupermajority>>
        /\ Count(calls, "create-snapshot") = 1 =>
                ArgAfter(seen.warp, "--warp-slot") # ""

\* ------------------------------------------------------------ termination
\* Every command of remote-node.sh but `solana catchup` returns: the init
\* wait within its 600 seconds, rsync-retry.sh once its retries are used up,
\* the others when their work is done.  A script that is at such a command
\* therefore takes its next step; catchup (line 462) may never return.
BoundedStep == pc # "catchup" /\ Steps

\* a bootstrap, and the joins of a validator and of the blockstreamer, with
\* and without the init wait
TerminationInputs ==
    {With([nodeType |-> t, waitForNodeInit |-> w]) :
        t \in {"bootstrap-validator", "validator", "blockstreamer"},
        w \in {"true", "false"}}
    \cup {With([deployMethod |-> "rsync"])}

TerminationNext == Invoke(TerminationInputs, MaxRuns) \/ Steps

TerminationSpec ==
    Init /\ [][TerminationNext]_vars /\ WF_vars(BoundedStep)

\* C26: a running invocation ends, with a status, or comes to wait in
\* catchup, the one command that may not return; only a validator set up by
\* this invocation comes to catchup, so a running bootstrap-validator or
\* blockstreamer invocation ends.
C26_Termination ==
    /\ [](pc \notin {"idle", "exited"} =>
            <>(\/ pc = "exited" /\ exitStatus # Running
               \/ pc = "catchup"))
    /\ []((pc \notin {"idle", "exited"}
            /\ arg.nodeType \in {"bootstrap-validator", "blockstreamer"}) =>
                <>(pc = "exited" /\ exitStatus # Running))
    /\ [](pc = "catchup" => arg.nodeType = "validator")

\* a validator invocation waiting in catchup after its init wait of 600 s
C26_Witness ==
    /\ pc = "catchup"
    /\ arg.nodeType = "validator"
    /\ calls[Len(calls)] = "wait-init"
    /\ seen.waited = 600
    /\ exitStatus = Running

\* the run was given the option rejectExtraNodes
RejectsExtraNodes == \E k \in DOMAIN sarg.opts : sarg.opts[k] = "rejectExtraNodes"

\* C27: a probe that was sent used exactly-N mode iff rejectExtraNodes was
\* given and at-least-N mode otherwise, with N = numNodes when
\* failOnValidatorBootupFailure is true and N = 1 when it is false, and its
\* outcome is that of this mode and count; a run given rejectExtraNodes with
\* failOnValidatorBootupFailure false sends no probe and ends with status 1.
C27_ProbeModeAndCount ==
    /\ Count(scalls, "spy") = 1 =>
        /\ sarg.nodeArg = "num-nodes-exactly" <=> RejectsExtraNodes
        /\ sarg.nodeArg = "num-nodes" <=> ~RejectsExtraNodes
        /\ sarg.failOnValidatorBootupFailure = "true" =>
                sarg.numSanityNodes = sarg.numNodes
        /\ sarg.failOnValidatorBootupFailure = "false" =>
                sarg.numSanityNodes = "1"
        /\ sarg.nodeArg = "num-nodes-exactly" =>
                /\ sarg.failOnValidatorBootupFailure = "true"
                /\ sarg.numSanityNodes = sarg.numNodes
        /\ scalls[Len(scalls)] = "spy" =>
                sobs.spy = spy(IF RejectsExtraNodes THEN "num-nodes-exactly"
                               ELSE "num-nodes",
                               IF sarg.failOnValidatorBootupFailure = "true"
                               THEN Num(sarg.numNodes) ELSE 1,
                               sobs.peers)
    /\ (RejectsExtraNodes /\ sarg.failOnValidatorBootupFailure = "false"
            /\ spc \notin {"idle", "config", "options", "deployMethod",
                           "numSanityNodes"}) =>
        /\ spc = "exited" /\ sout.status = 1
        /\ scalls = <<>>

\* an at-least-1 probe of a two-node cluster that saw two peers and passed
C27_Witness ==
    /\ scalls # <<>> /\ scalls[Len(scalls)] = "spy"
    /\ ~RejectsExtraNodes
    /\ sarg.failOnValidatorBootupFailure = "false"
    /\ sarg.numNodes = "2" /\ sarg.numSanityNodes = "1"
    /\ sarg.nodeArg = "num-nodes"
    /\ sobs.peers = 2 /\ sobs.spy = "0"
    /\ spc = "rpc"

\* the sanity run in progress or ended reads the deployConfig that a
\* successful bootstrap invocation, the last invocation there was, has written
ReadsBootstrapConfig ==
    /\ pc = "exited" /\ exitStatus = 0
    /\ arg.nodeType = "bootstrap-validator"
    /\ deployConfig["boot"] # <<>>
    /\ deployConfig["boot"][1].deployMethod = arg.deployMethod
    /\ spc \notin {"idle", "config"}

\* C28 (as claimed): a sanity run on the deployConfig written by a successful
\* bootstrap invocation finds every required field and does not end on a
\* missing deployConfig, a missing field or an unknown deployment method.
C28_SanityAcceptsBootstrapConfig ==
    ReadsBootstrapConfig =>
        /\ SanityFirstMissing(sarg) = ""
        /\ sarg.deployMethod = arg.deployMethod
        /\ spc = "exited" =>
                sout.msg \notin {"deployConfig missing",
                                 "Unknown deployment method"}

\* the calls of setupValidatorKeypair the bootstrap setup in progress has
\* made, and the balance entries it has appended after the "---" line
KeypairCalls == Count(calls, "setupValidatorKeypair")

BalanceEntries ==
    IF Has(fs["boot"], BalancesFile) THEN Tail(fs["boot"][BalancesFile]) ELSE <<>>

\* C29 (as claimed): while a bootstrap setup provisions its keypairs, with
\* internalNodesLamports set the k-th call of setupValidatorKeypair has
\* appended one entry, the k-th, keyed by the public key of the keypair
\* config/<name> of the k-th name and carrying internalNodesLamports; with
\* internalNodesLamports empty there is no entry.
C29_BalanceEntryPerIdentity ==
    (arg.nodeType = "bootstrap-validator" /\ pc \in {"setupKeypair", "genesis"}) =>
        /\ arg.internalNodesLamports = "" => BalanceEntries = <<>>
        /\ arg.internalNodesLamports # "" =>
            /\ Len(BalanceEntries) = KeypairCalls
            /\ \A k \in 1..KeypairCalls :
                BalanceEntries[k] =
                    <<Pubkey(fs["boot"][Cfg(KeypairNames(arg.numNodes)[k])]),
                      arg.internalNodesLamports>>

\* ------------------------------------------------ InstructionCard: toggle
CardNext == Mount \/ rawClickHandler \/ FetchCompletes

CardSpec == Init /\ [][CardNext]_vars

\* C30: showRaw is its initial value, defaultRaw or false, flipped once per
\* click; the last click triggered a fetch iff, when it was made, defaultRaw
\* was not set, showRaw was false and no raw instruction was there; a click
\* that triggered a fetch turned the raw view on; and there are no more
\* fetches than clicks that turned it on.
C30_RawToggle ==
    card.mounted =>
        /\ card.showRaw = ((card.defaultRaw = "true") # (card.clicks % 2 = 1))
        /\ card.clicks > 0 =>
            /\ card.last.fetched <=>
                (/\ card.defaultRaw \in {"undefined", "false"}
                 /\ ~card.last.showRaw
                 /\ ~card.last.raw)
            /\ card.showRaw = ~card.last.showRaw
            /\ card.last.fetched => card.showRaw
        /\ card.clicks = 0 => card.fetches = 0
        /\ card.fetches <= (card.clicks + 1) \div 2
        /\ card.pending <= card.fetches

\* a second turn-on of the raw view whose click fetched again, the first
\* fetch having brought no raw instruction
C30_Witness ==
    /\ card.mounted /\ card.clicks = 3
    /\ card.showRaw /\ card.last.fetched
    /\ card.fetches = 2 /\ card.pending = 1
    /\ ~card.raw

====
